---- MODULE Spec2Model ----
(***************************************************************************)
(* Model of main_app.py: the line-oriented outline parser of               *)
(* parse_text_to_excel_with_merging and its invocations, the run-length    *)
(* merge of merge_consecutive_cells with merges that fail, and the         *)
(* pipeline boundary parse_pdf_data_to_excel_eel with its extraction       *)
(* fallback.                                                               *)
(*                                                                         *)
(* A Python str is a sequence of characters; each character is a one       *)
(* element TLA+ string.  The glyphs outside ASCII are written by their     *)
(* code point: "U+2022" is the bullet, "U+00B7" the middle dot.            *)
(***************************************************************************)
EXTENDS Integers, Sequences, FiniteSets, Bags, TLC

VARIABLES
    \* parse_text_to_excel_with_merging, lines 130-265
    lines,                      \* the lines consumed so far (prefix of pdf_text.split)
    raw_line,                   \* loop variable: the last line taken
    category,                   \* the branch of the loop body the last line took
    parsed_data,
    current_level1,
    current_level2,
    current_level3,
    current_list_item_buffer,
    parse_pc,                   \* "loop" while in the for loop, "done" after line 262
    \* merge_consecutive_cells, lines 278-341
    column_index,               \* the column of the current call, 1..3
    row_num,
    current_value,
    start_row,                  \* 0 stands for None
    merged_cells,               \* sheet.merged_cells: the set of <<column, first row, last row>>
    merge_pc,                   \* "idle", "call", "scan", "done"
    column_order,               \* the columns in the order of the calls of lines 336-338
    merge_errors,               \* the ranges for which sheet.merge_cells raised
    \* extract_text_from_pdf_eel and parse_pdf_data_to_excel_eel, lines 11-95
    PYMUPDF_AVAILABLE,
    stdout,                     \* sys.stdout: [encoding, errors]
    entry,                      \* the exposed function the script called, or "none"
    pdf_data_base64,            \* the payload: "base64" or "malformed"
    original_filename,
    method,                     \* the method of the running extract call
    attempts,                   \* the library extractions run, in order: [method, ok]
    extracted_text,             \* `text` of extract_text_from_pdf_eel (lines 27, 63)
    pdf_text,                   \* the text at the boundary (line 74)
    parser_invoked,             \* parse_text_to_excel_with_merging was called (line 90)
    result,                     \* None, or <<the dict the boundary returned>>
    exception,                  \* "none", or the exception that left the exposed function
    pipe_pc,                    \* "idle", "called", "start", "extract", "check", "parse",
                                \* "merge", "save", "done"
    \* the invocations of parse_text_to_excel_with_merging, lines 103-380
    suspended,                  \* None, or <<the locals of the invocation not running>>
    returned                    \* the bag of [text, rows, merged] of the finished invocations

parser_vars == <<lines, raw_line, category, parsed_data, current_level1,
                 current_level2, current_level3, current_list_item_buffer, parse_pc>>

merge_vars == <<column_index, row_num, current_value, start_row, merged_cells, merge_pc,
                column_order, merge_errors>>

\* what no step of a call assigns: the module's flag, the stream print
\* writes to, and the arguments of the call
pipe_inputs == <<PYMUPDF_AVAILABLE, stdout, entry, pdf_data_base64, original_filename>>

pipe_vars == <<pipe_inputs, method, attempts,
               extracted_text, pdf_text, parser_invoked, result, exception, pipe_pc>>

call_vars == <<suspended, returned>>

vars == <<parser_vars, merge_vars, pipe_vars, call_vars>>

----------------------------------------------------------------------------
(* Bounds *)

MaxLineLen == 5
MaxLines == 3
MaxRows == 4
MaxCalls == 2
MaxCallLines == 2

----------------------------------------------------------------------------
(* Characters *)

\* \d of a str pattern: the decimal digits of Unicode (category Nd), "0".."9"
\* and 65 more blocks of ten
Digits ==
    { "0", "1", "2", "3", "4", "5", "6", "7", "8", "9",
      "U+0660", "U+0661", "U+0662", "U+0663", "U+0664", "U+0665", "U+0666", "U+0667", "U+0668", "U+0669",
      "U+06F0", "U+06F1", "U+06F2", "U+06F3", "U+06F4", "U+06F5", "U+06F6", "U+06F7", "U+06F8", "U+06F9",
      "U+07C0", "U+07C1", "U+07C2", "U+07C3", "U+07C4", "U+07C5", "U+07C6", "U+07C7", "U+07C8", "U+07C9",
      "U+0966", "U+0967", "U+0968", "U+0969", "U+096A", "U+096B", "U+096C", "U+096D", "U+096E", "U+096F",
      "U+09E6", "U+09E7", "U+09E8", "U+09E9", "U+09EA", "U+09EB", "U+09EC", "U+09ED", "U+09EE", "U+09EF",
      "U+0A66", "U+0A67", "U+0A68", "U+0A69", "U+0A6A", "U+0A6B", "U+0A6C", "U+0A6D", "U+0A6E", "U+0A6F",
      "U+0AE6", "U+0AE7", "U+0AE8", "U+0AE9", "U+0AEA", "U+0AEB", "U+0AEC", "U+0AED", "U+0AEE", "U+0AEF",
      "U+0B66", "U+0B67", "U+0B68", "U+0B69", "U+0B6A", "U+0B6B", "U+0B6C", "U+0B6D", "U+0B6E", "U+0B6F",
      "U+0BE6", "U+0BE7", "U+0BE8", "U+0BE9", "U+0BEA", "U+0BEB", "U+0BEC", "U+0BED", "U+0BEE", "U+0BEF",
      "U+0C66", "U+0C67", "U+0C68", "U+0C69", "U+0C6A", "U+0C6B", "U+0C6C", "U+0C6D", "U+0C6E", "U+0C6F",
      "U+0CE6", "U+0CE7", "U+0CE8", "U+0CE9", "U+0CEA", "U+0CEB", "U+0CEC", "U+0CED", "U+0CEE", "U+0CEF",
      "U+0D66", "U+0D67", "U+0D68", "U+0D69", "U+0D6A", "U+0D6B", "U+0D6C", "U+0D6D", "U+0D6E", "U+0D6F",
      "U+0DE6", "U+0DE7", "U+0DE8", "U+0DE9", "U+0DEA", "U+0DEB", "U+0DEC", "U+0DED", "U+0DEE", "U+0DEF",
      "U+0E50", "U+0E51", "U+0E52", "U+0E53", "U+0E54", "U+0E55", "U+0E56", "U+0E57", "U+0E58", "U+0E59",
      "U+0ED0", "U+0ED1", "U+0ED2", "U+0ED3", "U+0ED4", "U+0ED5", "U+0ED6", "U+0ED7", "U+0ED8", "U+0ED9",
      "U+0F20", "U+0F21", "U+0F22", "U+0F23", "U+0F24", "U+0F25", "U+0F26", "U+0F27", "U+0F28", "U+0F29",
      "U+1040", "U+1041", "U+1042", "U+1043", "U+1044", "U+1045", "U+1046", "U+1047", "U+1048", "U+1049",
      "U+1090", "U+1091", "U+1092", "U+1093", "U+1094", "U+1095", "U+1096", "U+1097", "U+1098", "U+1099",
      "U+17E0", "U+17E1", "U+17E2", "U+17E3", "U+17E4", "U+17E5", "U+17E6", "U+17E7", "U+17E8", "U+17E9",
      "U+1810", "U+1811", "U+1812", "U+1813", "U+1814", "U+1815", "U+1816", "U+1817", "U+1818", "U+1819",
      "U+1946", "U+1947", "U+1948", "U+1949", "U+194A", "U+194B", "U+194C", "U+194D", "U+194E", "U+194F",
      "U+19D0", "U+19D1", "U+19D2", "U+19D3", "U+19D4", "U+19D5", "U+19D6", "U+19D7", "U+19D8", "U+19D9",
      "U+1A80", "U+1A81", "U+1A82", "U+1A83", "U+1A84", "U+1A85", "U+1A86", "U+1A87", "U+1A88", "U+1A89",
      "U+1A90", "U+1A91", "U+1A92", "U+1A93", "U+1A94", "U+1A95", "U+1A96", "U+1A97", "U+1A98", "U+1A99",
      "U+1B50", "U+1B51", "U+1B52", "U+1B53", "U+1B54", "U+1B55", "U+1B56", "U+1B57", "U+1B58", "U+1B59",
      "U+1BB0", "U+1BB1", "U+1BB2", "U+1BB3", "U+1BB4", "U+1BB5", "U+1BB6", "U+1BB7", "U+1BB8", "U+1BB9",
      "U+1C40", "U+1C41", "U+1C42", "U+1C43", "U+1C44", "U+1C45", "U+1C46", "U+1C47", "U+1C48", "U+1C49",
      "U+1C50", "U+1C51", "U+1C52", "U+1C53", "U+1C54", "U+1C55", "U+1C56", "U+1C57", "U+1C58", "U+1C59",
      "U+A620", "U+A621", "U+A622", "U+A623", "U+A624", "U+A625", "U+A626", "U+A627", "U+A628", "U+A629",
      "U+A8D0", "U+A8D1", "U+A8D2", "U+A8D3", "U+A8D4", "U+A8D5", "U+A8D6", "U+A8D7", "U+A8D8", "U+A8D9",
      "U+A900", "U+A901", "U+A902", "U+A903", "U+A904", "U+A905", "U+A906", "U+A907", "U+A908", "U+A909",
      "U+A9D0", "U+A9D1", "U+A9D2", "U+A9D3", "U+A9D4", "U+A9D5", "U+A9D6", "U+A9D7", "U+A9D8", "U+A9D9",
      "U+A9F0", "U+A9F1", "U+A9F2", "U+A9F3", "U+A9F4", "U+A9F5", "U+A9F6", "U+A9F7", "U+A9F8", "U+A9F9",
      "U+AA50", "U+AA51", "U+AA52", "U+AA53", "U+AA54", "U+AA55", "U+AA56", "U+AA57", "U+AA58", "U+AA59",
      "U+ABF0", "U+ABF1", "U+ABF2", "U+ABF3", "U+ABF4", "U+ABF5", "U+ABF6", "U+ABF7", "U+ABF8", "U+ABF9",
      "U+FF10", "U+FF11", "U+FF12", "U+FF13", "U+FF14", "U+FF15", "U+FF16", "U+FF17", "U+FF18", "U+FF19",
      "U+104A0", "U+104A1", "U+104A2", "U+104A3", "U+104A4", "U+104A5", "U+104A6", "U+104A7", "U+104A8", "U+104A9",
      "U+10D30", "U+10D31", "U+10D32", "U+10D33", "U+10D34", "U+10D35", "U+10D36", "U+10D37", "U+10D38", "U+10D39",
      "U+11066", "U+11067", "U+11068", "U+11069", "U+1106A", "U+1106B", "U+1106C", "U+1106D", "U+1106E", "U+1106F",
      "U+110F0", "U+110F1", "U+110F2", "U+110F3", "U+110F4", "U+110F5", "U+110F6", "U+110F7", "U+110F8", "U+110F9",
      "U+11136", "U+11137", "U+11138", "U+11139", "U+1113A", "U+1113B", "U+1113C", "U+1113D", "U+1113E", "U+1113F",
      "U+111D0", "U+111D1", "U+111D2", "U+111D3", "U+111D4", "U+111D5", "U+111D6", "U+111D7", "U+111D8", "U+111D9",
      "U+112F0", "U+112F1", "U+112F2", "U+112F3", "U+112F4", "U+112F5", "U+112F6", "U+112F7", "U+112F8", "U+112F9",
      "U+11450", "U+11451", "U+11452", "U+11453", "U+11454", "U+11455", "U+11456", "U+11457", "U+11458", "U+11459",
      "U+114D0", "U+114D1", "U+114D2", "U+114D3", "U+114D4", "U+114D5", "U+114D6", "U+114D7", "U+114D8", "U+114D9",
      "U+11650", "U+11651", "U+11652", "U+11653", "U+11654", "U+11655", "U+11656", "U+11657", "U+11658", "U+11659",
      "U+116C0", "U+116C1", "U+116C2", "U+116C3", "U+116C4", "U+116C5", "U+116C6", "U+116C7", "U+116C8", "U+116C9",
      "U+11730", "U+11731", "U+11732", "U+11733", "U+11734", "U+11735", "U+11736", "U+11737", "U+11738", "U+11739",
      "U+118E0", "U+118E1", "U+118E2", "U+118E3", "U+118E4", "U+118E5", "U+118E6", "U+118E7", "U+118E8", "U+118E9",
      "U+11950", "U+11951", "U+11952", "U+11953", "U+11954", "U+11955", "U+11956", "U+11957", "U+11958", "U+11959",
      "U+11C50", "U+11C51", "U+11C52", "U+11C53", "U+11C54", "U+11C55", "U+11C56", "U+11C57", "U+11C58", "U+11C59",
      "U+11D50", "U+11D51", "U+11D52", "U+11D53", "U+11D54", "U+11D55", "U+11D56", "U+11D57", "U+11D58", "U+11D59",
      "U+11DA0", "U+11DA1", "U+11DA2", "U+11DA3", "U+11DA4", "U+11DA5", "U+11DA6", "U+11DA7", "U+11DA8", "U+11DA9",
      "U+16A60", "U+16A61", "U+16A62", "U+16A63", "U+16A64", "U+16A65", "U+16A66", "U+16A67", "U+16A68", "U+16A69",
      "U+16AC0", "U+16AC1", "U+16AC2", "U+16AC3", "U+16AC4", "U+16AC5", "U+16AC6", "U+16AC7", "U+16AC8", "U+16AC9",
      "U+16B50", "U+16B51", "U+16B52", "U+16B53", "U+16B54", "U+16B55", "U+16B56", "U+16B57", "U+16B58", "U+16B59",
      "U+1D7CE", "U+1D7CF", "U+1D7D0", "U+1D7D1", "U+1D7D2", "U+1D7D3", "U+1D7D4", "U+1D7D5", "U+1D7D6", "U+1D7D7",
      "U+1D7D8", "U+1D7D9", "U+1D7DA", "U+1D7DB", "U+1D7DC", "U+1D7DD", "U+1D7DE", "U+1D7DF", "U+1D7E0", "U+1D7E1",
      "U+1D7E2", "U+1D7E3", "U+1D7E4", "U+1D7E5", "U+1D7E6", "U+1D7E7", "U+1D7E8", "U+1D7E9", "U+1D7EA", "U+1D7EB",
      "U+1D7EC", "U+1D7ED", "U+1D7EE", "U+1D7EF", "U+1D7F0", "U+1D7F1", "U+1D7F2", "U+1D7F3", "U+1D7F4", "U+1D7F5",
      "U+1D7F6", "U+1D7F7", "U+1D7F8", "U+1D7F9", "U+1D7FA", "U+1D7FB", "U+1D7FC", "U+1D7FD", "U+1D7FE", "U+1D7FF",
      "U+1E140", "U+1E141", "U+1E142", "U+1E143", "U+1E144", "U+1E145", "U+1E146", "U+1E147", "U+1E148", "U+1E149",
      "U+1E2F0", "U+1E2F1", "U+1E2F2", "U+1E2F3", "U+1E2F4", "U+1E2F5", "U+1E2F6", "U+1E2F7", "U+1E2F8", "U+1E2F9",
      "U+1E950", "U+1E951", "U+1E952", "U+1E953", "U+1E954", "U+1E955", "U+1E956", "U+1E957", "U+1E958", "U+1E959",
      "U+1FBF0", "U+1FBF1", "U+1FBF2", "U+1FBF3", "U+1FBF4", "U+1FBF5", "U+1FBF6", "U+1FBF7", "U+1FBF8", "U+1FBF9" }

\* \s of a str pattern, which is also what str.strip() removes
WhiteSpace ==
    { " ", "\t", "\n", "\r", "\f", "U+000B", "U+001C", "U+001D", "U+001E", "U+001F",
      "U+0085", "U+00A0", "U+1680", "U+2000", "U+2001", "U+2002", "U+2003", "U+2004",
      "U+2005", "U+2006", "U+2007", "U+2008", "U+2009", "U+200A", "U+2028", "U+2029",
      "U+202F", "U+205F", "U+3000" }

BulletGlyphs == {"U+2022", "U+2023", "U+25CF", "U+F0B7", "*", "-", "U+00B7"}

IsDigit(c) == c \in Digits
IsSpace(c) == c \in WhiteSpace

\* '' and None
EmptyStr == <<>>
None == <<>>
BULLET == <<"U+2022">>

\* str.strip(): drop the leading and the trailing whitespace
RECURSIVE lstrip(_)
lstrip(s) ==
    IF s # <<>> /\ IsSpace(Head(s)) THEN lstrip(Tail(s)) ELSE s

RECURSIVE rstrip(_)
rstrip(s) ==
    IF s # <<>> /\ IsSpace(s[Len(s)]) THEN rstrip(SubSeq(s, 1, Len(s) - 1)) ELSE s

strip(s) == rstrip(lstrip(s))

\* first index >= i of s whose character is not in the class, Len(s)+1 if none
RECURSIVE SkipWhile(_, _, _)
SkipWhile(s, i, class) ==
    IF i <= Len(s) /\ s[i] \in class THEN SkipWhile(s, i + 1, class) ELSE i

----------------------------------------------------------------------------
(* The five compiled patterns, lines 120-127.  Each operator is the result *)
(* of pattern.match(s): None, or the tuple of the captured groups.         *)

\* (?:\s+.+)?$ at index q: the end of s, or one whitespace and at least one
\* more character (\s+ gives back all but one character to .+)
OptionalText(s, q) ==
    \/ q = Len(s) + 1
    \/ q < Len(s) /\ IsSpace(s[q])

\* mutant: ^\s*(\d+.*)$, digits followed by anything
pattern_level1_AnyTail(s) ==
    LET p == SkipWhile(s, 1, WhiteSpace)
        q == SkipWhile(s, p, Digits)
    IN  IF q > p THEN <<SubSeq(s, p, Len(s))>> ELSE None

\* ^\s*(\d+(?:\s+.+)?)$
pattern_level1(s) ==
    LET p == SkipWhile(s, 1, WhiteSpace)
        q == SkipWhile(s, p, Digits)
    IN  IF q > p /\ OptionalText(s, q)
        THEN <<SubSeq(s, p, Len(s))>>
        ELSE None

\* mutant: ^\s*(\d+\.\d+.*)$, two segments followed by anything
pattern_level2_AnyTail(s) ==
    LET p  == SkipWhile(s, 1, WhiteSpace)
        q1 == SkipWhile(s, p, Digits)
        q2 == SkipWhile(s, q1 + 1, Digits)
    IN  IF q1 > p /\ q1 <= Len(s) /\ s[q1] = "." /\ q2 > q1 + 1
        THEN <<SubSeq(s, p, Len(s))>>
        ELSE None

\* ^\s*(\d+\.\d+(?:\s+.+)?)$
pattern_level2(s) ==
    LET p  == SkipWhile(s, 1, WhiteSpace)
        q1 == SkipWhile(s, p, Digits)
        q2 == SkipWhile(s, q1 + 1, Digits)
    IN  IF /\ q1 > p
           /\ q1 <= Len(s) /\ s[q1] = "."
           /\ q2 > q1 + 1
           /\ OptionalText(s, q2)
        THEN <<SubSeq(s, p, Len(s))>>
        ELSE None

\* ^\s*(\d+\.\d+\.\d+(?:\s+.+)?)$
pattern_level3(s) ==
    LET p  == SkipWhile(s, 1, WhiteSpace)
        q1 == SkipWhile(s, p, Digits)
        q2 == SkipWhile(s, q1 + 1, Digits)
        q3 == SkipWhile(s, q2 + 1, Digits)
    IN  IF /\ q1 > p
           /\ q1 <= Len(s) /\ s[q1] = "."
           /\ q2 > q1 + 1
           /\ q2 <= Len(s) /\ s[q2] = "."
           /\ q3 > q2 + 1
           /\ OptionalText(s, q3)
        THEN <<SubSeq(s, p, Len(s))>>
        ELSE None

\* \s*(.+)$ or \s+(.+)$ at index i, with at least `least` whitespace
\* characters: the greedy whitespace run, then the rest; when the run reaches
\* the end of s it gives its last character back to (.+).  None if no match.
SpacesThenText(s, i, least) ==
    LET w == SkipWhile(s, i, WhiteSpace)
    IN  IF w <= Len(s)
        THEN IF w - i >= least THEN <<SubSeq(s, w, Len(s))>> ELSE None
        ELSE IF w - i >= least + 1 THEN <<SubSeq(s, Len(s), Len(s))>> ELSE None

\* ^\s*(\d+)\.\s+(.+)$
pattern_list_item(s) ==
    LET p == SkipWhile(s, 1, WhiteSpace)
        q == SkipWhile(s, p, Digits)
    IN  IF q > p /\ q <= Len(s) /\ s[q] = "." /\ SpacesThenText(s, q + 1, 1) # None
        THEN <<SubSeq(s, p, q - 1), SpacesThenText(s, q + 1, 1)[1]>>
        ELSE None

\* ^[ \t]*[\u2022\u2023\u25CF\uF0B7\*\-\u00B7]\s*(.+)$
pattern_bullet_item(s) ==
    LET p == SkipWhile(s, 1, {" ", "\t"})
    IN  IF p <= Len(s) /\ s[p] \in BulletGlyphs
        THEN SpacesThenText(s, p + 1, 0)
        ELSE None

----------------------------------------------------------------------------
(* The loop body of parse_text_to_excel_with_merging, lines 139-251, as a  *)
(* function of the context                                                 *)
(*   [level1, level2, level3, buffer, parsed_data]                         *)
(* and the raw line.  buffer is None or <<[number, description]>>.         *)

Context(l1, l2, l3, buf, data) ==
    [level1 |-> l1, level2 |-> l2, level3 |-> l3, buffer |-> buf, parsed_data |-> data]

EmptyContext == Context(EmptyStr, EmptyStr, EmptyStr, None, <<>>)

\* mutant: the item dict without its level 3 heading
ItemRecord_DropsLevel3(ctx) ==
    [level1 |-> ctx.level1, level2 |-> ctx.level2, level3 |-> EmptyStr,
     item_no |-> ctx.buffer[1].number,
     item_desc |-> strip(ctx.buffer[1].description)]

\* the dict appended for a buffered list item (lines 151-157, 180-186,
\* 217-223, 233-239, 256-262)
ItemRecord(ctx) ==
    [level1 |-> ctx.level1, level2 |-> ctx.level2, level3 |-> ctx.level3,
     item_no |-> ctx.buffer[1].number,
     item_desc |-> strip(ctx.buffer[1].description)]

HeadingRecord(l1, l2, l3) ==
    [level1 |-> l1, level2 |-> l2, level3 |-> l3,
     item_no |-> EmptyStr, item_desc |-> EmptyStr]

\* mutant: an empty line with no buffered item writes a row of its own
OnBlank_EmitsRow(ctx) ==
    IF ctx.buffer # None
    THEN [ctx EXCEPT !.parsed_data = Append(@, ItemRecord(ctx)), !.buffer = None]
    ELSE [ctx EXCEPT !.parsed_data =
            Append(@, HeadingRecord(ctx.level1, ctx.level2, ctx.level3))]

\* lines 149-160: an empty line finalizes the buffered item
OnBlank(ctx) ==
    IF ctx.buffer # None
    THEN [ctx EXCEPT !.parsed_data = Append(@, ItemRecord(ctx)), !.buffer = None]
    ELSE ctx

\* mutant: the buffered item is not finalized before a heading or an item
PreFlush_Skipped(ctx, matched) == ctx

\* mutant: the buffered item is appended and stays buffered
PreFlush_KeepsBuffer(ctx, matched) ==
    IF ctx.buffer # None /\ matched
    THEN [ctx EXCEPT !.parsed_data = Append(@, ItemRecord(ctx))]
    ELSE ctx

\* lines 178-188: finalize the buffered item before a heading or a list item
PreFlush(ctx, matched) ==
    IF ctx.buffer # None /\ matched
    THEN [ctx EXCEPT !.parsed_data = Append(@, ItemRecord(ctx)), !.buffer = None]
    ELSE ctx

\* mutant: a level 1 heading starts the record list over
OnHeading1_StartsOver(ctx, text) ==
    [ctx EXCEPT !.level1 = text, !.level2 = EmptyStr, !.level3 = EmptyStr,
                !.parsed_data = <<HeadingRecord(text, EmptyStr, EmptyStr)>>]

\* lines 190-197
OnHeading1(ctx, text) ==
    [ctx EXCEPT !.level1 = text, !.level2 = EmptyStr, !.level3 = EmptyStr,
                !.parsed_data = Append(@, HeadingRecord(text, EmptyStr, EmptyStr))]

\* mutant: a level 2 heading that keeps the level 3 heading
OnHeading2_KeepsLevel3(ctx, text) ==
    [ctx EXCEPT !.level2 = text,
                !.parsed_data = Append(@, HeadingRecord(ctx.level1, text, EmptyStr))]

\* lines 199-205
OnHeading2(ctx, text) ==
    [ctx EXCEPT !.level2 = text, !.level3 = EmptyStr,
                !.parsed_data = Append(@, HeadingRecord(ctx.level1, text, EmptyStr))]

\* lines 207-212
OnHeading3(ctx, text) ==
    [ctx EXCEPT !.level3 = text,
                !.parsed_data = Append(@, HeadingRecord(ctx.level1, ctx.level2, text))]

\* lines 214-228
OnListItem(ctx, number, description) ==
    LET flushed == IF ctx.buffer # None
                   THEN Append(ctx.parsed_data, ItemRecord(ctx))
                   ELSE ctx.parsed_data
    IN  [ctx EXCEPT !.parsed_data = flushed,
                    !.buffer = <<[number |-> number, description |-> description]>>]

\* mutant: the item number is the hyphen, not the bullet glyph
OnBulletItem_Hyphen(ctx, description) ==
    LET flushed == IF ctx.buffer # None
                   THEN Append(ctx.parsed_data, ItemRecord(ctx))
                   ELSE ctx.parsed_data
    IN  [ctx EXCEPT !.parsed_data = flushed,
                    !.buffer = <<[number |-> <<"-">>, description |-> description]>>]

\* mutant: a bullet item buffered with no number
OnBulletItem_NoNumber(ctx, description) ==
    LET flushed == IF ctx.buffer # None
                   THEN Append(ctx.parsed_data, ItemRecord(ctx))
                   ELSE ctx.parsed_data
    IN  [ctx EXCEPT !.parsed_data = flushed,
                    !.buffer = <<[number |-> EmptyStr, description |-> description]>>]

\* lines 230-245
OnBulletItem(ctx, description) ==
    LET flushed == IF ctx.buffer # None
                   THEN Append(ctx.parsed_data, ItemRecord(ctx))
                   ELSE ctx.parsed_data
    IN  [ctx EXCEPT !.parsed_data = flushed,
                    !.buffer = <<[number |-> BULLET, description |-> description]>>]

\* mutant: free text with no buffered item starts an item of its own
OnContinuation_StartsItem(ctx, line) ==
    IF ctx.buffer # None
    THEN [ctx EXCEPT !.buffer =
            <<[number |-> ctx.buffer[1].number,
               description |-> ctx.buffer[1].description \o <<" ">> \o line]>>]
    ELSE [ctx EXCEPT !.buffer = <<[number |-> EmptyStr, description |-> line]>>]

\* lines 247-251
OnContinuation(ctx, line) ==
    IF ctx.buffer # None
    THEN [ctx EXCEPT !.buffer =
            <<[number |-> ctx.buffer[1].number,
               description |-> ctx.buffer[1].description \o <<" ">> \o line]>>]
    ELSE ctx

\* the branch of the loop body a raw line takes: `if not line` (149), then
\* the if/elif chain of lines 190-247 over the five match results (162-167)
Branch(raw) ==
    LET line == strip(raw)
    IN  IF line = EmptyStr THEN "Blank"
        ELSE IF pattern_level1(line) # None THEN "Heading1"
        ELSE IF pattern_level2(line) # None THEN "Heading2"
        ELSE IF pattern_level3(line) # None THEN "Heading3"
        ELSE IF pattern_list_item(line) # None THEN "NumberedItem"
        ELSE IF pattern_bullet_item(raw) # None THEN "BulletItem"
        ELSE "Continuation"

\* one iteration of the for loop, lines 139-251
StepLine(ctx, raw) ==
    LET line == strip(raw)
        match_level1 == pattern_level1(line)
        match_level2 == pattern_level2(line)
        match_level3 == pattern_level3(line)
        match_list_item == pattern_list_item(line)
        match_bullet_item == pattern_bullet_item(raw)
        matched == \/ match_level1 # None \/ match_level2 # None
                   \/ match_level3 # None \/ match_list_item # None
                   \/ match_bullet_item # None
        c == PreFlush(ctx, matched)
        branch == Branch(raw)
    IN  CASE branch = "Blank"        -> OnBlank(ctx)
          [] branch = "Heading1"     -> OnHeading1(c, match_level1[1])
          [] branch = "Heading2"     -> OnHeading2(c, match_level2[1])
          [] branch = "Heading3"     -> OnHeading3(c, match_level3[1])
          [] branch = "NumberedItem" -> OnListItem(c, match_list_item[1], match_list_item[2])
          [] branch = "BulletItem"   -> OnBulletItem(c, match_bullet_item[1])
          [] OTHER                   -> OnContinuation(c, line)

\* lines 254-262: the buffered item left after the loop
FinalFlush(ctx) ==
    IF ctx.buffer # None
    THEN [ctx EXCEPT !.parsed_data = Append(@, ItemRecord(ctx))]
    ELSE ctx

\* pdf_text.split('\n'), line 136, then the loop and the final flush
RECURSIVE ParseLines(_, _)
ParseLines(ctx, ls) ==
    IF ls = <<>> THEN FinalFlush(ctx) ELSE ParseLines(StepLine(ctx, Head(ls)), Tail(ls))

----------------------------------------------------------------------------
(* The parser as a state machine: one step per line of the for loop.       *)

CurrentContext ==
    Context(current_level1, current_level2, current_level3,
            current_list_item_buffer, parsed_data)

\* lines 130-136: the state before the first line
ParserInit ==
    /\ lines = <<>>
    /\ raw_line = EmptyStr
    /\ category = "none"
    /\ parsed_data = <<>>
    /\ current_level1 = EmptyStr
    /\ current_level2 = EmptyStr
    /\ current_level3 = EmptyStr
    /\ current_list_item_buffer = None
    /\ parse_pc = "loop"

\* lines 139-251: the loop body on the next line of the text
ProcessLine(raw) ==
    /\ parse_pc = "loop"
    /\ LET c == StepLine(CurrentContext, raw)
       IN  /\ lines' = Append(lines, raw)
           /\ raw_line' = raw
           /\ category' = Branch(raw)
           /\ parsed_data' = c.parsed_data
           /\ current_level1' = c.level1
           /\ current_level2' = c.level2
           /\ current_level3' = c.level3
           /\ current_list_item_buffer' = c.buffer
    /\ UNCHANGED parse_pc

\* lines 254-262: the text is exhausted (split yields at least one line)
EndOfInput ==
    /\ parse_pc = "loop"
    /\ Len(lines) >= 1
    /\ parse_pc' = "done"
    /\ parsed_data' = FinalFlush(CurrentContext).parsed_data
    /\ UNCHANGED <<lines, raw_line, category, current_level1, current_level2,
                   current_level3, current_list_item_buffer>>

(* Inputs.  LineAlphabet spans every character class the patterns tell     *)
(* apart (the space is in [ \t] and \s, the no-break space in \s only);    *)
(* AllLines is every line over it up to MaxLineLen.                        *)
LineAlphabet == {"1", ".", " ", "U+00A0", "a", "*", "U+2022"}

AllLines == UNION {[1..n -> LineAlphabet] : n \in 0..MaxLineLen}

\* raw lines of every category for the multi-line parses
SampleLines ==
    { <<>>, <<"U+00A0">>,
      <<"1">>, <<"3", "U+00A0", "a">>,
      <<"1", ".", "1">>, <<"0", ".", "U+0663", " ", "a">>,
      <<"1", ".", "1", ".", "1">>,
      <<"1", ".", " ", "a">>, <<"2", ".", "\t", "a", " ", "b">>,
      <<"*", " ", "a">>, <<"*", " ", "a", " ">>, <<" ", "-", "b">>,
      <<"U+00B7", "a">>,
      <<"a">>, <<" ", "b", " ">>, <<".">> }

\* a text of one line, any line of AllLines
TakeAnyLine == Len(lines) = 0 /\ \E raw \in AllLines : ProcessLine(raw)

\* a text of up to MaxLines lines of SampleLines
TakeSampleLine == Len(lines) < MaxLines /\ \E raw \in SampleLines : ProcessLine(raw)

----------------------------------------------------------------------------
(* merge_consecutive_cells(column_index, sheet), lines 278-331.  The sheet *)
(* holds the header in row 1 and parsed_data[i] in row i + 1 (268-275).    *)

max_row == Len(parsed_data) + 1

\* sheet.cell(row=row, column=col).value for a heading column
CellValue(data, row, col) ==
    CASE col = 1 -> data[row - 1].level1
      [] col = 2 -> data[row - 1].level2
      [] col = 3 -> data[row - 1].level3

\* mutant: the closed run takes in the row that ended it
CloseRun_ThroughRow(merged, col, start, row) ==
    IF start # 0 /\ start < row - 1
    THEN merged \cup {<<col, start, row>>}
    ELSE merged

\* mutant: a merged range leaves its lower rows without a value in every
\* column
SheetValue_AnyColumn(data, merged, row, col) ==
    IF \E r \in merged : r[2] < row /\ row <= r[3]
    THEN None
    ELSE CellValue(data, row, col)

\* sheet.cell(row=row, column=col).value once the ranges of `merged` are
\* merged: sheet.merge_cells keeps the value of a range in its first row
\* and leaves the rows below it without a value
SheetValue(data, merged, row, col) ==
    IF \E r \in merged : r[1] = col /\ r[2] < row /\ row <= r[3]
    THEN None
    ELSE CellValue(data, row, col)

\* lines 293-301 and 306-314: close the open run at the row before `row`
CloseRun(merged, col, start, row) ==
    IF start # 0 /\ start < row - 1
    THEN merged \cup {<<col, start, row - 1>>}
    ELSE merged

\* mutant: an empty cell does not end the open run
ScanRow_SkipsEmpty(st, col, row, cell_value) ==
    IF cell_value # EmptyStr /\ strip(cell_value) # EmptyStr /\ st.current_value # cell_value
    THEN [current_value |-> cell_value, start_row |-> row,
          merged |-> CloseRun(st.merged, col, st.start_row, row)]
    ELSE st

\* lines 288-317: the loop body on one row, as a function of
\* [current_value, start_row, merged]
ScanRow(st, col, row, cell_value) ==
    IF cell_value # EmptyStr /\ strip(cell_value) # EmptyStr
    THEN IF st.current_value # cell_value
         THEN [current_value |-> cell_value, start_row |-> row,
               merged |-> CloseRun(st.merged, col, st.start_row, row)]
         ELSE st
    ELSE [current_value |-> None, start_row |-> 0,
          merged |-> CloseRun(st.merged, col, st.start_row, row)]

\* lines 322-331: the run still open after the last row
FinalMerge(st, col, last) ==
    IF st.start_row # 0 /\ st.start_row < last
    THEN st.merged \cup {<<col, st.start_row, last>>}
    ELSE st.merged

\* the whole call on one column of `data`, adding to `merged`
RECURSIVE ScanFrom(_, _, _, _)
ScanFrom(st, data, col, row) ==
    IF row > Len(data) + 1
    THEN FinalMerge(st, col, Len(data) + 1)
    ELSE ScanFrom(ScanRow(st, col, row, SheetValue(data, st.merged, row, col)),
                  data, col, row + 1)

merge_consecutive_cells(col, data, merged) ==
    IF Len(data) + 1 < 2
    THEN merged
    ELSE ScanFrom([current_value |-> None, start_row |-> 0, merged |-> merged],
                  data, col, 2)

MergeIdle ==
    /\ column_index = 0
    /\ row_num = 0
    /\ current_value = None
    /\ start_row = 0
    /\ merged_cells = {}
    /\ merge_pc = "idle"
    /\ column_order = <<1, 2, 3>>
    /\ merge_errors = {}

\* lines 336-338: the next call; the third call is the last
NextColumn ==
    LET i == CHOOSE j \in 1..3 : column_order[j] = column_index
    IN  IF i < 3
        THEN column_index' = column_order[i + 1] /\ merge_pc' = "call"
        ELSE column_index' = column_index /\ merge_pc' = "done"

\* lines 280-284: entry of the call
MergeCall ==
    /\ merge_pc = "call"
    /\ IF max_row < 2
       THEN /\ NextColumn
            /\ UNCHANGED <<row_num, current_value, start_row>>
       ELSE /\ current_value' = None
            /\ start_row' = 0
            /\ row_num' = 2
            /\ merge_pc' = "scan"
            /\ UNCHANGED column_index
    /\ UNCHANGED <<merged_cells, column_order, merge_errors, parser_vars>>

\* lines 286-320: one iteration of the row loop
MergeScanRow ==
    /\ merge_pc = "scan"
    /\ row_num <= max_row
    /\ LET st == ScanRow([current_value |-> current_value, start_row |-> start_row,
                          merged |-> merged_cells],
                         column_index, row_num,
                         SheetValue(parsed_data, merged_cells, row_num, column_index))
       IN  /\ current_value' = st.current_value
           /\ start_row' = st.start_row
           /\ merged_cells' = st.merged
    /\ row_num' = row_num + 1
    /\ UNCHANGED <<column_index, merge_pc, column_order, merge_errors, parser_vars>>

\* lines 322-331: after the loop, then the return to lines 336-338
MergeFinal ==
    /\ merge_pc = "scan"
    /\ row_num > max_row
    /\ merged_cells' = FinalMerge([current_value |-> current_value,
                                   start_row |-> start_row, merged |-> merged_cells],
                                  column_index, max_row)
    /\ NextColumn
    /\ UNCHANGED <<row_num, current_value, start_row, column_order, merge_errors,
                   parser_vars>>

\* the locals of the scan
ScanState ==
    [current_value |-> current_value, start_row |-> start_row, merged |-> merged_cells]

\* mutant: the failure leaves the iteration before the run state is updated
MergeFailed_LeavesRunOpen(before, st) == before

\* lines 300-301, 313-314: sheet.merge_cells raised in an iteration that
\* takes the scan from `before` to `st`; the handler prints, the range is
\* not merged and the statements after the handler run
MergeFailed(before, st) == [st EXCEPT !.merged = before.merged]

\* lines 286-320: an iteration whose sheet.merge_cells raises
MergeScanRowFails ==
    /\ merge_pc = "scan"
    /\ row_num <= max_row
    /\ LET st == ScanRow(ScanState, column_index, row_num,
                         SheetValue(parsed_data, merged_cells, row_num, column_index))
           after == MergeFailed(ScanState, st)
       IN  /\ st.merged # merged_cells
           /\ current_value' = after.current_value
           /\ start_row' = after.start_row
           /\ merged_cells' = after.merged
           /\ merge_errors' = merge_errors \cup (st.merged \ merged_cells)
    /\ row_num' = row_num + 1
    /\ UNCHANGED <<column_index, merge_pc, column_order, parser_vars>>

\* lines 322-331: the final sheet.merge_cells raises, caught at line 330
MergeFinalFails ==
    /\ merge_pc = "scan"
    /\ row_num > max_row
    /\ LET final == FinalMerge(ScanState, column_index, max_row)
       IN  /\ final # merged_cells
           /\ merge_errors' = merge_errors \cup (final \ merged_cells)
    /\ NextColumn
    /\ UNCHANGED <<row_num, current_value, start_row, merged_cells, column_order,
                   parser_vars>>

\* lines for the sheets the merge runs on, one row each: every row value
\* sequence over '', '1.1', '1.2 a' occurs in column 2
MergeLines ==
    { <<"1">>,
      <<"1", ".", "1">>, <<"1", ".", "2", " ", "a">>,
      <<"1", ".", "1", ".", "1">>,
      <<"*", " ", "a">> }

\* the texts of up to MaxRows such lines, and the text of one empty line,
\* whose sheet has the header row only
MergeTexts ==
    { << <<>> >> } \cup UNION {[1..n -> MergeLines] : n \in 1..MaxRows}

\* the state at line 334: the text parsed, its records written to the sheet
MergeStart ==
    /\ \E text \in MergeTexts :
         /\ lines = text
         /\ raw_line = text[Len(text)]
         /\ category = Branch(text[Len(text)])
         /\ LET c == ParseLines(EmptyContext, text)
            IN  /\ parsed_data = c.parsed_data
                /\ current_level1 = c.level1
                /\ current_level2 = c.level2
                /\ current_level3 = c.level3
                /\ current_list_item_buffer = c.buffer
         /\ parse_pc = "done"
    /\ column_index = 1
    /\ row_num = 0
    /\ current_value = None
    /\ start_row = 0
    /\ merged_cells = {}
    /\ merge_pc = "call"
    /\ column_order = <<1, 2, 3>>
    /\ merge_errors = {}

\* the orders in which the three calls of lines 336-338 can be taken
ColumnOrders ==
    { <<1, 2, 3>>, <<1, 3, 2>>, <<2, 1, 3>>, <<2, 3, 1>>, <<3, 1, 2>>, <<3, 2, 1>> }

\* the state at line 334 with the three calls taken in any order
MergeOrderStart ==
    /\ \E text \in MergeTexts :
         /\ lines = text
         /\ raw_line = text[Len(text)]
         /\ category = Branch(text[Len(text)])
         /\ LET c == ParseLines(EmptyContext, text)
            IN  /\ parsed_data = c.parsed_data
                /\ current_level1 = c.level1
                /\ current_level2 = c.level2
                /\ current_level3 = c.level3
                /\ current_list_item_buffer = c.buffer
         /\ parse_pc = "done"
    /\ \E order \in ColumnOrders :
         /\ column_order = order
         /\ column_index = order[1]
    /\ row_num = 0
    /\ current_value = None
    /\ start_row = 0
    /\ merged_cells = {}
    /\ merge_pc = "call"
    /\ merge_errors = {}

----------------------------------------------------------------------------
(* The pipeline boundary parse_pdf_data_to_excel_eel, lines 66-95, with    *)
(* extract_text_from_pdf_eel, lines 25-63.  What the PDF libraries and the *)
(* workbook do with a payload is the environment's choice.                 *)

\* str.split('\n'), line 136
RECURSIVE SplitFrom(_, _, _)
SplitFrom(text, i, cur) ==
    IF i > Len(text) THEN <<cur>>
    ELSE IF text[i] = "\n" THEN <<cur>> \o SplitFrom(text, i + 1, <<>>)
    ELSE SplitFrom(text, i + 1, Append(cur, text[i]))

Split(text) == SplitFrom(text, 1, <<>>)

\* line 38: the method 'auto' selects
AutoMethod(available) == IF available THEN "pymupdf" ELSE "pypdf2"

\* line 40: the branch that extracts with PyMuPDF
UsesPyMuPDF(m, available) == m = "pymupdf" /\ available

\* line 48: the branch that extracts with PyPDF2
UsesPyPDF2(m, available) == ~UsesPyMuPDF(m, available) /\ (m = "pypdf2" \/ ~available)

\* mutant: every failed call retries
RetriesWithPyPDF2_Always(m, available) == TRUE

\* line 57: a failed call retries with PyPDF2
RetriesWithPyPDF2(m, available) == m = "pymupdf" /\ available

\* mutant: `not pdf_text`, the text not trimmed
NoText_Untrimmed(text) == text = EmptyStr

\* line 79: `not pdf_text.strip()`
NoText(text) == strip(text) = EmptyStr

\* the characters sheet.append (line 269) refuses in a cell string with
\* IllegalCharacterError: the control characters but tab, newline and
\* carriage return
ILLEGAL_CHARACTERS ==
    { "U+0000", "U+0001", "U+0002", "U+0003", "U+0004", "U+0005", "U+0006", "U+0007",
      "U+0008", "U+000B", "\f", "U+000E", "U+000F", "U+0010", "U+0011", "U+0012",
      "U+0013", "U+0014", "U+0015", "U+0016", "U+0017", "U+0018", "U+0019", "U+001A",
      "U+001B", "U+001C", "U+001D", "U+001E", "U+001F" }

HasIllegalCharacter(str) == \E i \in 1..Len(str) : str[i] \in ILLEGAL_CHARACTERS

\* lines 268-275: writing the rows succeeds unless a cell string is refused
RowsWritable(data) ==
    \A i \in 1..Len(data) :
        /\ ~HasIllegalCharacter(data[i].level1)
        /\ ~HasIllegalCharacter(data[i].level2)
        /\ ~HasIllegalCharacter(data[i].level3)
        /\ ~HasIllegalCharacter(data[i].item_no)
        /\ ~HasIllegalCharacter(data[i].item_desc)

\* lines 336-338 when the first k calls complete
RECURSIVE MergeColumns(_, _)
MergeColumns(data, k) ==
    IF k = 0 THEN {} ELSE merge_consecutive_cells(k, data, MergeColumns(data, k - 1))

\* the returned dict of lines 77 and 80
ErrorResult(message) == <<[error |-> message]>>

\* line 95; the workbook stands for its base64 encoding
SuccessResult(data, merged, filename) ==
    <<[success |-> TRUE, excel_data |-> [rows |-> data, merged |-> merged],
       filename |-> filename]>>

IsError(r) == r # None /\ "error" \in DOMAIN r[1]
IsSuccess(r) == r # None /\ "success" \in DOMAIN r[1]

(* print(str) encodes str for sys.stdout and raises UnicodeEncodeError for *)
(* a character the stream cannot encode.  The constant parts of the        *)
(* messages printed are ASCII, which every stream here encodes, so a print *)
(* succeeds exactly when the value it formats is encodable.                *)

HexDigits ==
    {"0", "1", "2", "3", "4", "5", "6", "7", "8", "9", "A", "B", "C", "D", "E", "F"}

\* U+D800..U+DFFF: no encoding encodes them
Surrogates ==
    {"U+D" \o a \o b \o c : a \in {"8", "9", "A", "B", "C", "D", "E", "F"},
                            b \in HexDigits, c \in HexDigits}

\* U+DC80..U+DCFF: the error handler 'surrogateescape' writes them as bytes
EscapedSurrogates ==
    {"U+DC" \o b \o c : b \in {"8", "9", "A", "B", "C", "D", "E", "F"}, c \in HexDigits}

\* the characters the codec cp1252 encodes
CP1252 ==
    { "U+0000", "U+0001", "U+0002", "U+0003", "U+0004", "U+0005", "U+0006", "U+0007", "U+0008", "\t",
      "\n", "U+000B", "\f", "\r", "U+000E", "U+000F", "U+0010", "U+0011", "U+0012", "U+0013",
      "U+0014", "U+0015", "U+0016", "U+0017", "U+0018", "U+0019", "U+001A", "U+001B", "U+001C", "U+001D",
      "U+001E", "U+001F", " ", "!", "U+0022", "#", "$", "%", "&", "'",
      "(", ")", "*", "+", ",", "-", ".", "/", "0", "1",
      "2", "3", "4", "5", "6", "7", "8", "9", ":", ";",
      "<", "=", ">", "?", "@", "A", "B", "C", "D", "E",
      "F", "G", "H", "I", "J", "K", "L", "M", "N", "O",
      "P", "Q", "R", "S", "T", "U", "V", "W", "X", "Y",
      "Z", "[", "U+005C", "]", "^", "_", "U+0060", "a", "b", "c",
      "d", "e", "f", "g", "h", "i", "j", "k", "l", "m",
      "n", "o", "p", "q", "r", "s", "t", "u", "v", "w",
      "x", "y", "z", "{", "|", "}", "~", "U+007F", "U+00A0", "U+00A1",
      "U+00A2", "U+00A3", "U+00A4", "U+00A5", "U+00A6", "U+00A7", "U+00A8", "U+00A9", "U+00AA", "U+00AB",
      "U+00AC", "U+00AD", "U+00AE", "U+00AF", "U+00B0", "U+00B1", "U+00B2", "U+00B3", "U+00B4", "U+00B5",
      "U+00B6", "U+00B7", "U+00B8", "U+00B9", "U+00BA", "U+00BB", "U+00BC", "U+00BD", "U+00BE", "U+00BF",
      "U+00C0", "U+00C1", "U+00C2", "U+00C3", "U+00C4", "U+00C5", "U+00C6", "U+00C7", "U+00C8", "U+00C9",
      "U+00CA", "U+00CB", "U+00CC", "U+00CD", "U+00CE", "U+00CF", "U+00D0", "U+00D1", "U+00D2", "U+00D3",
      "U+00D4", "U+00D5", "U+00D6", "U+00D7", "U+00D8", "U+00D9", "U+00DA", "U+00DB", "U+00DC", "U+00DD",
      "U+00DE", "U+00DF", "U+00E0", "U+00E1", "U+00E2", "U+00E3", "U+00E4", "U+00E5", "U+00E6", "U+00E7",
      "U+00E8", "U+00E9", "U+00EA", "U+00EB", "U+00EC", "U+00ED", "U+00EE", "U+00EF", "U+00F0", "U+00F1",
      "U+00F2", "U+00F3", "U+00F4", "U+00F5", "U+00F6", "U+00F7", "U+00F8", "U+00F9", "U+00FA", "U+00FB",
      "U+00FC", "U+00FD", "U+00FE", "U+00FF", "U+0152", "U+0153", "U+0160", "U+0161", "U+0178", "U+017D",
      "U+017E", "U+0192", "U+02C6", "U+02DC", "U+2013", "U+2014", "U+2018", "U+2019", "U+201A", "U+201C",
      "U+201D", "U+201E", "U+2020", "U+2021", "U+2022", "U+2026", "U+2030", "U+2039", "U+203A", "U+20AC",
      "U+2122" }

\* str(c).encode(out.encoding, out.errors) succeeds
Encodable(out, c) ==
    \/ out.errors = "surrogateescape" /\ c \in EscapedSurrogates
    \/ CASE out.encoding = "utf-8" -> c \notin Surrogates
         [] out.encoding = "cp1252" -> c \in CP1252

\* print(str) returns
Printable(out, str) == \A i \in 1..Len(str) : Encodable(out, str[i])

\* str[:n]
Slice(str, n) == SubSeq(str, 1, IF Len(str) < n THEN Len(str) ELSE n)

\* the streams: the one of a POSIX locale and the one of a redirected
\* stdout on a Western-European Windows
Stdouts ==
    { [encoding |-> "utf-8", errors |-> "surrogateescape"],
      [encoding |-> "cp1252", errors |-> "strict"] }

\* lines 12-18: the import of fitz succeeds or fails, and no exposed
\* function is running
PipeIdle ==
    /\ PYMUPDF_AVAILABLE \in BOOLEAN
    /\ stdout \in Stdouts
    /\ entry = "none"
    /\ pdf_data_base64 = "none"
    /\ original_filename = EmptyStr
    /\ method = "auto"
    /\ attempts = <<>>
    /\ extracted_text = EmptyStr
    /\ pdf_text = EmptyStr
    /\ parser_invoked = FALSE
    /\ result = None
    /\ exception = "none"
    /\ pipe_pc = "idle"

\* the texts an extraction yields
PipelineTexts ==
    { <<>>,
      <<" ", "\n", "\t">>,
      <<"U+00A0", "\n", "U+000B">>,
      <<"a">>,
      <<"1", " ", "a", "\n", "*", " ", "b", " ", "\n", "c">>,
      <<"1", "\n", "1", ".", "1", "\n", "1", ".", "1", ".", "1", "\n", "*", " ", "a">>,
      <<"3", ".", " ", "a", "\n", "\n", "4", ".", " ", "b">>,
      <<"1", " ", "a", "\f", "b">>,
      <<"1", " ", "a", "\n", "U+25CF", " ", "b">>,
      <<"U+D835", " ", "1", " ", "a">> }

\* the file names the script passes (line 67)
Filenames == { <<"f">>, <<"U+25CF">>, <<"U+D835">> }

\* str(e) of the exceptions the libraries raise (lines 41-53)
ExtractionMessages == { <<"e">>, <<"U+25CF">>, <<"U+D835">> }

\* str(e) of the exception of base64.b64decode (line 33)
DecodeError == <<"I", "n", "c", "o", "r", "r", "e", "c", "t", " ",
                 "p", "a", "d", "d", "i", "n", "g">>

\* the two functions exposed to the script (lines 24, 66)
Entries == {"parse_pdf_data_to_excel_eel", "extract_text_from_pdf_eel"}

\* the method argument of extract_text_from_pdf_eel: the three the code
\* names, "other" for a value that is none of them, and two methods of one
\* character, named by its code point
Methods == {"auto", "pymupdf", "pypdf2", "other", "U+25CF", "U+D835"}

\* the characters of f"{method}" (line 56)
MethodText(m) ==
    CASE m = "auto" -> <<"a", "u", "t", "o">>
      [] m = "pymupdf" -> <<"p", "y", "m", "u", "p", "d", "f">>
      [] m = "pypdf2" -> <<"p", "y", "p", "d", "f", "2">>
      [] m = "other" -> <<"o", "t", "h", "e", "r">>
      [] OTHER -> <<m>>

\* the payload: one that base64.b64decode accepts, or one it raises on
Payloads == {"base64", "malformed"}

Decodes(payload) == payload = "base64"

\* lines 12-18, then a call of an exposed function by the script:
\* parse_pdf_data_to_excel_eel(payload, name), which passes 'auto' at line
\* 74, or extract_text_from_pdf_eel(payload, m) with the caller's method
PipeStart ==
    /\ PYMUPDF_AVAILABLE \in BOOLEAN
    /\ stdout \in Stdouts
    /\ entry \in Entries
    /\ pdf_data_base64 \in Payloads
    /\ original_filename \in
         (IF entry = "parse_pdf_data_to_excel_eel" THEN Filenames ELSE {EmptyStr})
    /\ method \in (IF entry = "parse_pdf_data_to_excel_eel" THEN {"auto"} ELSE Methods)
    /\ attempts = <<>>
    /\ extracted_text = EmptyStr
    /\ pdf_text = EmptyStr
    /\ parser_invoked = FALSE
    /\ result = None
    /\ exception = "none"
    /\ pipe_pc = IF entry = "parse_pdf_data_to_excel_eel" THEN "called" ELSE "start"

\* line 71: the boundary prints the file name; no handler encloses the print
EnterBoundary ==
    /\ pipe_pc = "called"
    /\ IF Printable(stdout, original_filename)
       THEN pipe_pc' = "start" /\ UNCHANGED exception
       ELSE pipe_pc' = "done" /\ exception' = "UnicodeEncodeError"
    /\ UNCHANGED <<pipe_inputs, method, attempts, extracted_text, pdf_text,
                   parser_invoked, result, parser_vars, merge_vars>>

\* a print inside extract_text_from_pdf_eel raised UnicodeEncodeError, which
\* leaves every enclosing call of it: lines 75-77 of the boundary print the
\* exception (its str is ASCII) and return the error; a call by the script
\* has no handler
EncodeErrorRaised ==
    /\ pipe_pc' = "done"
    /\ IF entry = "parse_pdf_data_to_excel_eel"
       THEN /\ result' = ErrorResult("codec can't encode character")
            /\ UNCHANGED exception
       ELSE /\ exception' = "UnicodeEncodeError"
            /\ UNCHANGED result

\* line 61 raises with the message of the failure, through every enclosing
\* call of extract_text_from_pdf_eel: lines 75-77 of the boundary print the
\* message and return the error; a call by the script has no handler and
\* the exception leaves the exposed function
ExtractionRaised(message) ==
    /\ pipe_pc' = "done"
    /\ IF entry = "parse_pdf_data_to_excel_eel"
       THEN IF Printable(stdout, message)
            THEN /\ result' = ErrorResult("Failed to extract text from PDF")
                 /\ UNCHANGED exception
            ELSE /\ exception' = "UnicodeEncodeError"
                 /\ UNCHANGED result
       ELSE /\ exception' = "Failed to extract text from PDF"
            /\ UNCHANGED result

\* lines 55-61: the handler of a call that failed with the message.  Line
\* 56 prints the method and the message; then the method 'pymupdf' with
\* PyMuPDF available calls again with 'pypdf2' (line 59), and every other
\* method raises
ExtractionFailed(message) ==
    IF ~Printable(stdout, MethodText(method) \o message)
    THEN /\ EncodeErrorRaised
         /\ UNCHANGED method
    ELSE IF RetriesWithPyPDF2(method, PYMUPDF_AVAILABLE)
         THEN /\ method' = "pypdf2"
              /\ pipe_pc' = "start"
              /\ UNCHANGED <<result, exception>>
         ELSE /\ ExtractionRaised(message)
              /\ UNCHANGED method

\* lines 27-38: one call of extract_text_from_pdf_eel up to the choice of
\* the library.  A payload that does not decode raises at line 33 with
\* method as passed, in the first call and in the call of line 59
CallExtract ==
    /\ pipe_pc = "start"
    /\ IF Decodes(pdf_data_base64)
       THEN /\ method' = IF method = "auto" THEN AutoMethod(PYMUPDF_AVAILABLE) ELSE method
            /\ pipe_pc' = "extract"
            /\ UNCHANGED <<result, exception>>
       ELSE ExtractionFailed(DecodeError)
    /\ UNCHANGED <<pipe_inputs, attempts, extracted_text, pdf_text,
                   parser_invoked, parser_vars, merge_vars>>

\* line 63, through every enclosing call: the text is returned, to line 74
\* of the boundary or to the script
ExtractionDone(t) ==
    /\ extracted_text' = t
    /\ IF entry = "parse_pdf_data_to_excel_eel"
       THEN pdf_text' = t /\ pipe_pc' = "check"
       ELSE pipe_pc' = "done" /\ UNCHANGED pdf_text
    /\ UNCHANGED <<method, result, exception>>

\* lines 40-46: the PyMuPDF extraction; line 46 prints the page count,
\* read after doc.close(): a library that raises on a closed document makes
\* the attempt one of the failing ones
AttemptPyMuPDF ==
    /\ pipe_pc = "extract"
    /\ UsesPyMuPDF(method, PYMUPDF_AVAILABLE)
    /\ \/ /\ \E t \in PipelineTexts : ExtractionDone(t)
          /\ attempts' = Append(attempts, [method |-> "pymupdf", ok |-> TRUE])
       \/ /\ \E message \in ExtractionMessages : ExtractionFailed(message)
          /\ attempts' = Append(attempts, [method |-> "pymupdf", ok |-> FALSE])
          /\ UNCHANGED <<extracted_text, pdf_text>>
    /\ UNCHANGED <<pipe_inputs, parser_invoked, parser_vars, merge_vars>>

\* lines 48-53: the PyPDF2 extraction; line 53 prints the page count
AttemptPyPDF2 ==
    /\ pipe_pc = "extract"
    /\ UsesPyPDF2(method, PYMUPDF_AVAILABLE)
    /\ \/ /\ \E t \in PipelineTexts : ExtractionDone(t)
          /\ attempts' = Append(attempts, [method |-> "pypdf2", ok |-> TRUE])
       \/ /\ \E message \in ExtractionMessages : ExtractionFailed(message)
          /\ attempts' = Append(attempts, [method |-> "pypdf2", ok |-> FALSE])
          /\ UNCHANGED <<extracted_text, pdf_text>>
    /\ UNCHANGED <<pipe_inputs, parser_invoked, parser_vars, merge_vars>>

\* lines 27, 40, 48, 63: the method is neither branch's (another method,
\* PyMuPDF available): no library is called and text is returned as ''
NoExtraction ==
    /\ pipe_pc = "extract"
    /\ ~UsesPyMuPDF(method, PYMUPDF_AVAILABLE)
    /\ ~UsesPyPDF2(method, PYMUPDF_AVAILABLE)
    /\ ExtractionDone(EmptyStr)
    /\ UNCHANGED <<pipe_inputs, attempts, parser_invoked, parser_vars, merge_vars>>

\* lines 79-86: the error for a text of whitespace, else the prints of the
\* length and of pdf_text[:500]; no handler encloses them
CheckEmpty ==
    /\ pipe_pc = "check"
    /\ IF NoText(pdf_text)
       THEN /\ result' = ErrorResult("No text could be extracted from the PDF data.")
            /\ pipe_pc' = "done"
            /\ UNCHANGED exception
       ELSE IF Printable(stdout, Slice(pdf_text, 500))
            THEN /\ pipe_pc' = "parse"
                 /\ UNCHANGED <<result, exception>>
            ELSE /\ exception' = "UnicodeEncodeError"
                 /\ pipe_pc' = "done"
                 /\ UNCHANGED result
    /\ UNCHANGED <<pipe_inputs, method, attempts, extracted_text,
                   pdf_text, parser_invoked, parser_vars, merge_vars>>

\* lines 90, 103-275: the parser runs on the text (lines 137 and 265 print
\* counts) and the rows are written; no handler encloses line 90, so a
\* refused cell string leaves the boundary
BuildGrid ==
    /\ pipe_pc = "parse"
    /\ parser_invoked' = TRUE
    /\ LET ls == Split(pdf_text)
           c == ParseLines(EmptyContext, ls)
       IN  /\ lines' = ls
           /\ raw_line' = ls[Len(ls)]
           /\ category' = Branch(ls[Len(ls)])
           /\ parsed_data' = c.parsed_data
           /\ current_level1' = c.level1
           /\ current_level2' = c.level2
           /\ current_level3' = c.level3
           /\ current_list_item_buffer' = c.buffer
           /\ parse_pc' = "done"
           /\ IF RowsWritable(c.parsed_data)
              THEN pipe_pc' = "merge" /\ UNCHANGED exception
              ELSE pipe_pc' = "done" /\ exception' = "IllegalCharacterError"
    /\ UNCHANGED <<pipe_inputs, method, attempts, extracted_text,
                   pdf_text, result, merge_vars>>

\* lines 335-341: the three merge calls; an exception among them is caught
\* and the conversion goes on with the columns merged so far
MergeAll ==
    /\ pipe_pc = "merge"
    /\ \E k \in 0..3 :
         /\ merged_cells' = MergeColumns(parsed_data, k)
         /\ column_index' = k
    /\ merge_pc' = "done"
    /\ pipe_pc' = "save"
    /\ UNCHANGED <<row_num, current_value, start_row, column_order, merge_errors,
                   pipe_inputs, method, attempts, extracted_text,
                   pdf_text, parser_invoked, result, exception, parser_vars>>

\* lines 343-380, 93-95: styling (each cell's failure is caught, 372-374),
\* then workbook.save, which no handler encloses, and the return
StyleAndSave ==
    /\ pipe_pc = "save"
    /\ \E saved \in BOOLEAN :
         IF saved
         THEN /\ result' = SuccessResult(parsed_data, merged_cells, original_filename)
              /\ UNCHANGED exception
         ELSE exception' = "save" /\ UNCHANGED result
    /\ pipe_pc' = "done"
    /\ UNCHANGED <<pipe_inputs, method, attempts, extracted_text,
                   pdf_text, parser_invoked, parser_vars, merge_vars>>

----------------------------------------------------------------------------
(* Invocations of parse_text_to_excel_with_merging.  Every name the        *)
(* function assigns (lines 103-134, 136-380) is a local of the invocation; *)
(* it writes no module-level name.  Two invocations may be in progress at  *)
(* once, each with locals of its own: `suspended` holds the locals of the  *)
(* one that is not running.                                                *)

\* the locals of one invocation
Frame(ls, raw, cat, ctx, pc) ==
    [lines |-> ls, raw_line |-> raw, category |-> cat, context |-> ctx, pc |-> pc]

CurrentFrame == Frame(lines, raw_line, category, CurrentContext, parse_pc)

\* mutant: parsed_data is a list that outlives the invocation
NewFrame_KeepsRecords ==
    Frame(<<>>, EmptyStr, "none",
          [EmptyContext EXCEPT !.parsed_data = parsed_data], "loop")

\* lines 130-136: the locals at the entry of an invocation
NewFrame == Frame(<<>>, EmptyStr, "none", EmptyContext, "loop")

\* the invocation whose locals are f runs
LoadFrame(f) ==
    /\ lines' = f.lines
    /\ raw_line' = f.raw_line
    /\ category' = f.category
    /\ parsed_data' = f.context.parsed_data
    /\ current_level1' = f.context.level1
    /\ current_level2' = f.context.level2
    /\ current_level3' = f.context.level3
    /\ current_list_item_buffer' = f.context.buffer
    /\ parse_pc' = f.pc

\* lines 264-380: the rows written for the records and the ranges merged
\* in the workbook the invocation returns
CallResult(text, data) ==
    [text |-> text, rows |-> data, merged |-> MergeColumns(data, 3)]

CallIdle ==
    /\ suspended = None
    /\ returned = EmptyBag

\* the invocations begun so far
Started ==
    BagCardinality(returned) + (IF parse_pc = "loop" THEN 1 ELSE 0)
                             + (IF suspended # None THEN 1 ELSE 0)

\* lines of a heading, an item and free text for the repeated parses
CallLines == { <<"1">>, <<"*", " ", "a">>, <<"b">> }

\* lines 139-251 in the running invocation
CallLine ==
    /\ Len(lines) < MaxCallLines
    /\ \E raw \in CallLines : ProcessLine(raw)
    /\ UNCHANGED call_vars

\* lines 254-380: the running invocation returns its workbook
CallReturn ==
    /\ EndOfInput
    /\ returned' = returned (+)
                   SetToBag({CallResult(lines, FinalFlush(CurrentContext).parsed_data)})
    /\ UNCHANGED suspended

\* line 90: a new invocation, after the running one returned or while it
\* is in progress
Invoke ==
    /\ Started < MaxCalls
    /\ parse_pc = "done" \/ suspended = None
    /\ suspended' = IF parse_pc = "loop" THEN <<CurrentFrame>> ELSE suspended
    /\ LoadFrame(NewFrame)
    /\ UNCHANGED returned

\* the invocation that was not running goes on
Switch ==
    /\ suspended # None
    /\ LoadFrame(suspended[1])
    /\ suspended' = IF parse_pc = "loop" THEN <<CurrentFrame>> ELSE None
    /\ UNCHANGED returned

----------------------------------------------------------------------------
(* Specifications *)

Init == ParserInit /\ MergeIdle /\ PipeIdle /\ CallIdle

NextLine ==
    \/ TakeAnyLine /\ UNCHANGED <<merge_vars, pipe_vars, call_vars>>
    \/ EndOfInput /\ UNCHANGED <<merge_vars, pipe_vars, call_vars>>
SpecLine == Init /\ [][NextLine]_vars

NextParse ==
    \/ TakeSampleLine /\ UNCHANGED <<merge_vars, pipe_vars, call_vars>>
    \/ EndOfInput /\ UNCHANGED <<merge_vars, pipe_vars, call_vars>>
SpecParse == Init /\ [][NextParse]_vars

NextMerge ==
    \/ MergeCall /\ UNCHANGED <<pipe_vars, call_vars>>
    \/ MergeScanRow /\ UNCHANGED <<pipe_vars, call_vars>>
    \/ MergeFinal /\ UNCHANGED <<pipe_vars, call_vars>>
MergeInit == MergeStart /\ PipeIdle /\ CallIdle
SpecMerge == MergeInit /\ [][NextMerge]_vars

MergeOrderInit == MergeOrderStart /\ PipeIdle /\ CallIdle
SpecMergeOrder == MergeOrderInit /\ [][NextMerge]_vars

NextMergeFaulty ==
    \/ MergeCall /\ UNCHANGED <<pipe_vars, call_vars>>
    \/ MergeScanRow /\ UNCHANGED <<pipe_vars, call_vars>>
    \/ MergeScanRowFails /\ UNCHANGED <<pipe_vars, call_vars>>
    \/ MergeFinal /\ UNCHANGED <<pipe_vars, call_vars>>
    \/ MergeFinalFails /\ UNCHANGED <<pipe_vars, call_vars>>
SpecMergeFaulty == MergeInit /\ [][NextMergeFaulty]_vars

NextPipeline ==
    \/ EnterBoundary /\ UNCHANGED call_vars
    \/ CallExtract /\ UNCHANGED call_vars
    \/ AttemptPyMuPDF /\ UNCHANGED call_vars
    \/ AttemptPyPDF2 /\ UNCHANGED call_vars
    \/ NoExtraction /\ UNCHANGED call_vars
    \/ CheckEmpty /\ UNCHANGED call_vars
    \/ BuildGrid /\ UNCHANGED call_vars
    \/ MergeAll /\ UNCHANGED call_vars
    \/ StyleAndSave /\ UNCHANGED call_vars
PipeInit == ParserInit /\ MergeIdle /\ PipeStart /\ CallIdle
SpecPipeline == PipeInit /\ [][NextPipeline]_vars

NextCalls ==
    \/ CallLine /\ UNCHANGED <<merge_vars, pipe_vars>>
    \/ CallReturn /\ UNCHANGED <<merge_vars, pipe_vars>>
    \/ Invoke /\ UNCHANGED <<merge_vars, pipe_vars>>
    \/ Switch /\ UNCHANGED <<merge_vars, pipe_vars>>
SpecCalls == Init /\ [][NextCalls]_vars

Spec == SpecParse

----------------------------------------------------------------------------
(* Claims *)

Last(seq) == seq[Len(seq)]

\* the patterns that match a raw line as the loop body applies them
MatchingPatterns(raw) ==
    LET line == strip(raw)
    IN  {n \in {"level1", "level2", "level3", "list_item", "bullet_item"} :
            CASE n = "level1"      -> pattern_level1(line) # None
              [] n = "level2"      -> pattern_level2(line) # None
              [] n = "level3"      -> pattern_level3(line) # None
              [] n = "list_item"   -> pattern_list_item(line) # None
              [] n = "bullet_item" -> pattern_bullet_item(raw) # None}

\* the first rule that matches in the order Blank, Heading3, Heading2,
\* Heading1, NumberedItem, BulletItem, Continuation
FirstInSpecOrder(raw) ==
    LET m == MatchingPatterns(raw)
    IN  IF strip(raw) = EmptyStr THEN "Blank"
        ELSE IF "level3" \in m THEN "Heading3"
        ELSE IF "level2" \in m THEN "Heading2"
        ELSE IF "level1" \in m THEN "Heading1"
        ELSE IF "list_item" \in m THEN "NumberedItem"
        ELSE IF "bullet_item" \in m THEN "BulletItem"
        ELSE "Continuation"

\* C1: for every line over the alphabet, the branch the loop body takes is
\* the first rule that matches in the order Blank, Heading3, Heading2,
\* Heading1, NumberedItem, BulletItem, Continuation, and at most one of the
\* five patterns matches the line.
C1_Theorem ==
    category # "none" =>
        /\ category = FirstInSpecOrder(raw_line)
        /\ Cardinality(MatchingPatterns(raw_line)) <= 1

\* a three-segment heading was taken as Heading3, with text after it
C1_Witness ==
    /\ category = "Heading3"
    /\ Len(raw_line) = 5
    /\ current_level3 = raw_line
    /\ Len(parsed_data) = 1

\* the form "N. text": an integer, a period, whitespace, then text, with no
\* whitespace around it
IsNDotText(s) ==
    LET q == SkipWhile(s, 1, Digits)
        w == SkipWhile(s, q + 1, WhiteSpace)
    IN  /\ q > 1
        /\ q <= Len(s) /\ s[q] = "."
        /\ w > q + 1
        /\ w <= Len(s)
        /\ ~IsSpace(s[Len(s)])

NDotTextNumber(s) == SubSeq(s, 1, SkipWhile(s, 1, Digits) - 1)

NDotTextText(s) ==
    SubSeq(s, SkipWhile(s, SkipWhile(s, 1, Digits) + 1, WhiteSpace), Len(s))

\* C2 as stated: a line "N. text" matches both the Heading1 and the
\* NumberedItem pattern and is taken as a Heading1: it sets level1, emits a
\* heading record and starts no pending item.
C2_Original ==
    (category # "none" /\ IsNDotText(raw_line)) =>
        /\ {"level1", "list_item"} \subseteq MatchingPatterns(raw_line)
        /\ category = "Heading1"
        /\ current_level1 = raw_line
        /\ current_list_item_buffer = None
        /\ parsed_data = <<HeadingRecord(raw_line, EmptyStr, EmptyStr)>>

\* C2 amended: a line "N. text" matches the NumberedItem pattern only (the
\* Heading1 pattern wants whitespace or the end of the line after the
\* digits) and is taken as a NumberedItem: level1 stays as it was, no
\* heading record is emitted, and a pending item with number N and
\* description text is started, emitted at the end of input.
C2_Theorem ==
    (category # "none" /\ IsNDotText(raw_line)) =>
        /\ MatchingPatterns(raw_line) = {"list_item"}
        /\ category = "NumberedItem"
        /\ current_level1 = EmptyStr
        /\ current_list_item_buffer =
              <<[number |-> NDotTextNumber(raw_line),
                 description |-> NDotTextText(raw_line)]>>
        /\ parse_pc = "loop" => parsed_data = <<>>
        /\ parse_pc = "done" =>
              parsed_data = <<[level1 |-> EmptyStr, level2 |-> EmptyStr,
                               level3 |-> EmptyStr,
                               item_no |-> NDotTextNumber(raw_line),
                               item_desc |-> NDotTextText(raw_line)]>>

\* "1. a" was parsed to its item record
C2_Witness ==
    /\ raw_line = <<"1", ".", " ", "a">>
    /\ parse_pc = "done"
    /\ Len(parsed_data) = 1
    /\ parsed_data[1].item_no = <<"1">>

IsItemLine(raw) == Branch(raw) \in {"NumberedItem", "BulletItem"}
IsHeadingLine(raw) == Branch(raw) \in {"Heading1", "Heading2", "Heading3"}

\* the indices of the item lines of ls, in order
RECURSIVE ItemLinesFrom(_, _)
ItemLinesFrom(ls, i) ==
    IF i > Len(ls) THEN <<>>
    ELSE IF IsItemLine(ls[i]) THEN <<i>> \o ItemLinesFrom(ls, i + 1)
    ELSE ItemLinesFrom(ls, i + 1)

IsItemRecord(r) == r.item_no # EmptyStr
ItemRecords(data) == SelectSeq(data, IsItemRecord)

\* the description an item line starts with, trimmed
InitialDescription(raw) ==
    IF Branch(raw) = "NumberedItem"
    THEN strip(pattern_list_item(strip(raw))[2])
    ELSE strip(pattern_bullet_item(raw)[1])

\* acc, then one space and the trimmed text of each Continuation line from j
RECURSIVE WithContinuations(_, _, _)
WithContinuations(ls, j, acc) ==
    IF j <= Len(ls) /\ Branch(ls[j]) = "Continuation"
    THEN WithContinuations(ls, j + 1, acc \o <<" ">> \o strip(ls[j]))
    ELSE acc

\* C3 as stated: the record of an item line followed by k >= 0 Continuation
\* lines and a terminator has as itemDesc the item's description and the
\* trimmed text of each continuation line, joined by exactly one space, for
\* every raw form of the lines.
C3_Claim ==
    parse_pc = "done" =>
        LET idx == ItemLinesFrom(lines, 1)
            recs == ItemRecords(parsed_data)
        IN  /\ Len(recs) = Len(idx)
            /\ \A k \in 1..Len(idx) :
                 InitialDescription(lines[idx[k]]) # EmptyStr =>
                    recs[k].item_desc =
                        WithContinuations(lines, idx[k] + 1,
                                          InitialDescription(lines[idx[k]]))

\* no digit and no bullet glyph
IsPlain(raw) == \A i \in 1..Len(raw) : raw[i] \notin (Digits \cup BulletGlyphs)

\* C4: after any sequence of lines with no digit and no bullet glyph there
\* is no record and no pending item.
C4_Theorem ==
    (\A i \in 1..Len(lines) : IsPlain(lines[i])) =>
        /\ parsed_data = <<>>
        /\ current_list_item_buffer = None

\* three such lines, free text among them, parsed to the end
C4_Witness ==
    /\ lines = << <<"a">>, <<" ", "b", " ">>, <<".">> >>
    /\ parse_pc = "done"
    /\ parsed_data = <<>>

\* C5: a heading line of level N replaces levelN by the line's text, empties
\* every deeper level, leaves every shallower level as it was, and appends
\* one heading record (after the record of a pending item, if any) holding
\* the new level1..level3 with empty itemNo and itemDesc.
C5_Theorem ==
    [][ (lines' # lines /\ category' \in {"Heading1", "Heading2", "Heading3"}) =>
          LET text == strip(raw_line')
              n == Len(parsed_data')
              flushed == IF current_list_item_buffer # None THEN 1 ELSE 0
          IN  /\ n = Len(parsed_data) + flushed + 1
              /\ SubSeq(parsed_data', 1, Len(parsed_data)) = parsed_data
              /\ flushed = 1 => parsed_data'[n - 1].item_no # EmptyStr
              /\ parsed_data'[n] =
                    [level1 |-> current_level1', level2 |-> current_level2',
                     level3 |-> current_level3',
                     item_no |-> EmptyStr, item_desc |-> EmptyStr]
              /\ category' = "Heading1" =>
                    /\ current_level1' = text
                    /\ current_level2' = EmptyStr
                    /\ current_level3' = EmptyStr
              /\ category' = "Heading2" =>
                    /\ current_level1' = current_level1
                    /\ current_level2' = text
                    /\ current_level3' = EmptyStr
              /\ category' = "Heading3" =>
                    /\ current_level1' = current_level1
                    /\ current_level2' = current_level2
                    /\ current_level3' = text
              /\ current_list_item_buffer' = None
      ]_vars

\* "3 a" (with a no-break space), "1.1.1", then "1.1": the second heading keeps level1, the third
\* keeps level1, sets level2 and empties level3
C5_Witness ==
    /\ lines = << <<"3", "U+00A0", "a">>, <<"1", ".", "1", ".", "1">>, <<"1", ".", "1">> >>
    /\ Len(parsed_data) = 3
    /\ parsed_data[3] = [level1 |-> <<"3", "U+00A0", "a">>, level2 |-> <<"1", ".", "1">>,
                         level3 |-> EmptyStr,
                         item_no |-> EmptyStr, item_desc |-> EmptyStr]
    /\ current_level3 = EmptyStr

\* the raw form of a bullet line: spaces or tabs, one glyph of the set,
\* whitespace, and a description that is not empty
BulletRest(raw) ==
    SubSeq(raw, SkipWhile(raw, 1, {" ", "\t"}) + 1, Len(raw))

IsBulletForm(raw) ==
    LET p == SkipWhile(raw, 1, {" ", "\t"})
    IN  p <= Len(raw) /\ raw[p] \in BulletGlyphs /\ strip(BulletRest(raw)) # EmptyStr

BulletDescription(raw) == strip(BulletRest(raw))

\* the line that started the pending item: the last item line taken
PendingStart ==
    CHOOSE i \in 1..Len(lines) :
        IsItemLine(lines[i]) /\ \A j \in (i + 1)..Len(lines) : ~IsItemLine(lines[j])

\* the text after the glyph of the bullet line ls[i], then one space and the
\* trimmed text of each Continuation line that follows it, trimmed at both
\* ends
BulletWithContinuations(ls, i) ==
    strip(WithContinuations(ls, i + 1, BulletRest(ls[i])))

\* C6 as stated: a line of the bullet form starts a pending item numbered
\* with the glyph U+2022 whichever glyph the line has, and the record
\* emitted for it has that itemNo, the description as itemDesc, and the
\* heading context as level1..level3 (all empty when no heading line came
\* before).
C6_Original ==
    [][ /\ (lines' # lines /\ IsBulletForm(raw_line')) =>
              /\ category' = "BulletItem"
              /\ Len(current_list_item_buffer') = 1
              /\ current_list_item_buffer'[1].number = BULLET
        /\ ( /\ current_list_item_buffer # None
             /\ Len(parsed_data') > Len(parsed_data)
             /\ IsBulletForm(lines[PendingStart]) ) =>
              LET rec == parsed_data'[Len(parsed_data) + 1]
              IN  /\ rec.item_no = BULLET
                  /\ rec.item_desc = BulletDescription(lines[PendingStart])
                  /\ rec.level1 = current_level1
                  /\ rec.level2 = current_level2
                  /\ rec.level3 = current_level3
                  /\ (\A j \in 1..Len(lines) : ~IsHeadingLine(lines[j])) =>
                        /\ rec.level1 = EmptyStr
                        /\ rec.level2 = EmptyStr
                        /\ rec.level3 = EmptyStr
      ]_vars

\* C6 amended: a line of the bullet form starts a pending item numbered with
\* the glyph U+2022 whichever glyph the line has, and the record emitted for
\* it has that itemNo and the heading context as level1..level3 (all empty
\* when no heading line came before).  Its itemDesc is the description when
\* no Continuation line followed the bullet line; otherwise it is the text
\* after the glyph, then one space and the trimmed text of each such
\* Continuation line in turn, trimmed at both ends.
C6_Theorem ==
    [][ /\ (lines' # lines /\ IsBulletForm(raw_line')) =>
              /\ category' = "BulletItem"
              /\ Len(current_list_item_buffer') = 1
              /\ current_list_item_buffer'[1].number = BULLET
              /\ strip(current_list_item_buffer'[1].description) =
                    BulletDescription(raw_line')
        /\ ( /\ current_list_item_buffer # None
             /\ Len(parsed_data') > Len(parsed_data)
             /\ IsBulletForm(lines[PendingStart]) ) =>
              LET rec == parsed_data'[Len(parsed_data) + 1]
              IN  /\ rec.item_no = BULLET
                  /\ rec.level1 = current_level1
                  /\ rec.level2 = current_level2
                  /\ rec.level3 = current_level3
                  /\ PendingStart = Len(lines) =>
                        rec.item_desc = BulletDescription(lines[PendingStart])
                  /\ rec.item_desc = BulletWithContinuations(lines, PendingStart)
                  /\ (\A j \in (PendingStart + 1)..Len(lines) :
                        Branch(lines[j]) = "Continuation")
                  /\ (\A j \in 1..Len(lines) : ~IsHeadingLine(lines[j])) =>
                        /\ rec.level1 = EmptyStr
                        /\ rec.level2 = EmptyStr
                        /\ rec.level3 = EmptyStr
      ]_vars

\* " -b" under the heading "3 a" (with a no-break space), continued by "a"
\* and ended by the end of the text
C6_Witness ==
    /\ lines = << <<"3", "U+00A0", "a">>, <<" ", "-", "b">>, <<"a">> >>
    /\ parse_pc = "done"
    /\ Len(parsed_data) = 2
    /\ parsed_data[2] = [level1 |-> <<"3", "U+00A0", "a">>, level2 |-> EmptyStr,
                         level3 |-> EmptyStr,
                         item_no |-> BULLET, item_desc |-> <<"b", " ", "a">>]

\* the maximal spans of at least 2 rows of column col, within rows
\* 2..max_row, that hold one identical non-empty value
MaximalRuns(col) ==
    LET v(r) == CellValue(parsed_data, r, col)
    IN  { <<col, a, b>> : <<a, b>> \in
            { ab \in (2..max_row) \X (2..max_row) :
                /\ ab[1] < ab[2]
                /\ v(ab[1]) # EmptyStr
                /\ \A r \in ab[1]..ab[2] : v(r) = v(ab[1])
                /\ ab[1] = 2 \/ v(ab[1] - 1) # v(ab[1])
                /\ ab[2] = max_row \/ v(ab[2] + 1) # v(ab[1]) } }

\* C7: after the three calls, the ranges merged in each heading column are
\* exactly the maximal spans of at least 2 rows of rows 2..N that hold one
\* identical non-empty value; a row with an empty value ends the open run
\* and starts none.
C7_Theorem ==
    merge_pc = "done" =>
        merged_cells = MaximalRuns(1) \cup MaximalRuns(2) \cup MaximalRuns(3)

\* column 2 holds '1.1', '1.1', '', '1.1': rows 2-3 are merged, row 5 is not
C7_Witness ==
    /\ merge_pc = "done"
    /\ lines = << <<"1", ".", "1">>, <<"*", " ", "a">>, <<"1">>, <<"1", ".", "1">> >>
    /\ Len(parsed_data) = 4
    /\ parsed_data[3].level2 = EmptyStr
    /\ parsed_data[4].level2 = parsed_data[1].level2
    /\ {r \in merged_cells : r[1] = 2} = {<<2, 2, 3>>}

\* C8 as stated: whatever extraction, grid construction, merging, styling
\* and serialization do, the boundary returns a success result or a
\* structured failure, and no exception leaves it.
C8_Claim ==
    (entry = "parse_pdf_data_to_excel_eel" /\ pipe_pc = "done") =>
        /\ exception = "none"
        /\ IsSuccess(result) \/ IsError(result)

AttemptsOf(m) == {i \in 1..Len(attempts) : attempts[i].method = m}

\* C9 as stated: PyPDF2 is attempted only after the PyMuPDF attempt failed,
\* and at most once; at most two attempts occur; if both fail the caller
\* gets one structured error result.
C9_Original ==
    entry = "parse_pdf_data_to_excel_eel" =>
    /\ \A i \in AttemptsOf("pypdf2") :
         i > 1 /\ attempts[i - 1] = [method |-> "pymupdf", ok |-> FALSE]
    /\ Cardinality(AttemptsOf("pypdf2")) <= 1
    /\ Len(attempts) <= 2
    /\ (Len(attempts) = 2 /\ ~attempts[2].ok) =>
         pipe_pc = "done" /\ IsError(result) /\ exception = "none"

\* C9 amended: PyPDF2 is attempted at most once, as the first and only
\* method when PyMuPDF is not available, otherwise only after the PyMuPDF
\* attempt failed; a failed PyPDF2 attempt is followed by no attempt, so at
\* most two attempts occur; when the last method attempted fails the caller
\* gets one structured error result and nothing is raised.
C9_Theorem ==
    entry = "parse_pdf_data_to_excel_eel" =>
    /\ \A i \in AttemptsOf("pypdf2") :
         \/ i = 1 /\ ~PYMUPDF_AVAILABLE
         \/ i = 2 /\ attempts[1] = [method |-> "pymupdf", ok |-> FALSE]
    /\ \A i \in AttemptsOf("pymupdf") : i = 1 /\ PYMUPDF_AVAILABLE
    /\ Len(attempts) <= 2
    /\ (attempts # <<>> /\ Last(attempts) = [method |-> "pypdf2", ok |-> FALSE]) =>
         /\ pipe_pc = "done"
         /\ IsError(result)
         /\ exception = "none"
         /\ ~parser_invoked
    /\ (attempts # <<>> /\ ~Last(attempts).ok /\ pipe_pc = "done") =>
         /\ IsError(result)
         /\ exception = "none"
         /\ ~parser_invoked

\* both methods were attempted and failed
C9_Witness ==
    /\ entry = "parse_pdf_data_to_excel_eel"
    /\ attempts = << [method |-> "pymupdf", ok |-> FALSE],
                     [method |-> "pypdf2", ok |-> FALSE] >>
    /\ pipe_pc = "done"
    /\ IsError(result)

\* C10: when extraction succeeds with a text that is empty after trimming,
\* the boundary returns a structured error, raises nothing, and never calls
\* the parser or builds the grid.
C10_Theorem ==
    ( /\ entry = "parse_pdf_data_to_excel_eel"
      /\ attempts # <<>> /\ Last(attempts).ok
      /\ strip(pdf_text) = EmptyStr
      /\ pipe_pc # "check" ) =>
        /\ pipe_pc = "done"
        /\ IsError(result)
        /\ exception = "none"
        /\ ~parser_invoked
        /\ parse_pc = "loop" /\ lines = <<>> /\ parsed_data = <<>>
        /\ merge_pc = "idle"

\* a text of whitespace only was extracted and answered with the error
C10_Witness ==
    /\ entry = "parse_pdf_data_to_excel_eel"
    /\ pdf_text = <<" ", "\n", "\t">>
    /\ attempts # <<>> /\ Last(attempts).ok
    /\ pipe_pc = "done"
    /\ IsError(result)

\* C11: the parse is a function of its text.  Any two finished invocations
\* with the same text, run one after the other or interleaved with others,
\* returned the same rows and the same merged ranges, those of a parse from
\* the empty context; and an invocation that has consumed no line holds the
\* empty context: level1..level3 empty, no pending item, no record.
C11_Theorem ==
    /\ \A a, b \in BagToSet(returned) : a.text = b.text => a = b
    /\ \A a \in BagToSet(returned) :
         a.rows = ParseLines(EmptyContext, a.text).parsed_data
    /\ (parse_pc = "loop" /\ lines = <<>>) => CurrentContext = EmptyContext
    /\ (suspended # None /\ suspended[1].lines = <<>>) =>
         suspended[1].context = EmptyContext

\* the text "1", "* a" was parsed twice: a heading row, an item row under
\* it, rows 2-3 of column 1 merged
C11_Witness ==
    \E r \in BagToSet(returned) :
        /\ CopiesIn(r, returned) = 2
        /\ r.text = << <<"1">>, <<"*", " ", "a">> >>
        /\ Len(r.rows) = 2
        /\ r.rows[2].level1 = <<"1">>
        /\ r.merged = {<<1, 2, 3>>}

\* the record the pending item gives when it is flushed in this state
PendingRecord ==
    [level1 |-> current_level1, level2 |-> current_level2, level3 |-> current_level3,
     item_no |-> current_list_item_buffer[1].number,
     item_desc |-> strip(current_list_item_buffer[1].description)]

\* C12: after a Blank or a Heading line is processed no item is pending;
\* and when a pending item meets a Blank line, a Heading line or a new item
\* line, its record is the next one appended: alone for a Blank or an item
\* line (the new item is then the pending one), followed by exactly the
\* heading's record for a Heading line.
C12_Theorem ==
    [][ lines' # lines =>
          /\ category' \in {"Blank", "Heading1", "Heading2", "Heading3"} =>
                current_list_item_buffer' = None
          /\ ( /\ current_list_item_buffer # None
               /\ category' \in {"Blank", "NumberedItem", "BulletItem"} ) =>
                parsed_data' = Append(parsed_data, PendingRecord)
          /\ ( /\ current_list_item_buffer # None
               /\ category' \in {"NumberedItem", "BulletItem"} ) =>
                /\ current_list_item_buffer' # None
                /\ current_list_item_buffer'[1].description =
                      IF category' = "NumberedItem"
                      THEN pattern_list_item(strip(raw_line'))[2]
                      ELSE pattern_bullet_item(raw_line')[1]
          /\ ( /\ current_list_item_buffer # None
               /\ category' \in {"Heading1", "Heading2", "Heading3"} ) =>
                /\ Len(parsed_data') = Len(parsed_data) + 2
                /\ SubSeq(parsed_data', 1, Len(parsed_data) + 1) =
                      Append(parsed_data, PendingRecord)
                /\ parsed_data'[Len(parsed_data) + 2].item_no = EmptyStr
      ]_vars

\* "1. a" was pending when the heading "1.1" arrived: the item's record,
\* without the heading, then the heading's record
C12_Witness ==
    /\ lines = << <<"1", ".", " ", "a">>, <<"1", ".", "1">> >>
    /\ current_list_item_buffer = None
    /\ Len(parsed_data) = 2
    /\ parsed_data[1].item_no = <<"1">> /\ parsed_data[1].level2 = EmptyStr
    /\ parsed_data[2].item_no = EmptyStr /\ parsed_data[2].level2 = <<"1", ".", "1">>

\* the branch each line of ls takes
Categories(ls) == [j \in 1..Len(ls) |-> Branch(ls[j])]

\* the indices of the item lines, in order, from the categories of the lines
RECURSIVE ItemIndices(_, _)
ItemIndices(cats, i) ==
    IF i > Len(cats) THEN <<>>
    ELSE IF cats[i] \in {"NumberedItem", "BulletItem"}
         THEN <<i>> \o ItemIndices(cats, i + 1)
         ELSE ItemIndices(cats, i + 1)

\* the last line of category cat among lines from..to, 0 if none
LastOf(cats, cat, from, to) ==
    LET found == {j \in from..to : cats[j] = cat}
    IN  IF found = {} THEN 0 ELSE CHOOSE j \in found : \A k \in found : k <= j

Max(a, b) == IF a >= b THEN a ELSE b

\* the heading context when line i of ls is processed, read off the heading
\* lines before it: the last level 1 heading, the last level 2 heading
\* after that one, the last level 3 heading after both
HeadingContextAt(ls, cats, i) ==
    LET h1 == LastOf(cats, "Heading1", 1, i - 1)
        h2 == LastOf(cats, "Heading2", h1 + 1, i - 1)
        h3 == LastOf(cats, "Heading3", Max(h1, h2) + 1, i - 1)
        text(h) == IF h = 0 THEN EmptyStr ELSE strip(ls[h])
    IN  <<text(h1), text(h2), text(h3)>>

\* C13: in every state of the parse, the k-th item record carries as
\* level1..level3 the heading context that was current when the k-th item
\* line was processed, although the record is built when the item is
\* flushed.
C13_Theorem ==
    LET cats == Categories(lines)
        idx == ItemIndices(cats, 1)
        recs == ItemRecords(parsed_data)
    IN  /\ Len(recs) <= Len(idx)
        /\ \A k \in 1..Len(recs) :
             <<recs[k].level1, recs[k].level2, recs[k].level3>> =
                HeadingContextAt(lines, cats, idx[k])

\* "* a" under the heading "1.1.1" was flushed by the heading "1.1" that
\* followed: its record has level3 "1.1.1" and no level2
C13_Witness ==
    /\ lines = << <<"1", ".", "1", ".", "1">>, <<"*", " ", "a">>, <<"1", ".", "1">> >>
    /\ Len(parsed_data) = 3
    /\ parsed_data[2].item_no = BULLET
    /\ parsed_data[2].level3 = <<"1", ".", "1", ".", "1">>
    /\ parsed_data[2].level2 = EmptyStr
    /\ current_level2 = <<"1", ".", "1">>

\* the number an item line gives its item: the digits before the period,
\* or the bullet
ItemNumberOf(raw) ==
    IF Branch(raw) = "NumberedItem"
    THEN SubSeq(strip(raw), 1, SkipWhile(strip(raw), 1, Digits) - 1)
    ELSE BULLET

\* C14: in every state of the parse there is one item record for each item
\* line but the one still pending, in the order of the lines and with the
\* line's number, so no item is lost and none is appended twice; after the
\* end of the input the records are as many as the item lines, and an item
\* that was pending then is the last record.
C14_Theorem ==
    LET cats == Categories(lines)
        idx == ItemIndices(cats, 1)
        recs == ItemRecords(parsed_data)
        pending == IF parse_pc = "loop" /\ current_list_item_buffer # None
                   THEN 1 ELSE 0
    IN  /\ Len(recs) + pending = Len(idx)
        /\ \A k \in 1..Len(recs) : recs[k].item_no = ItemNumberOf(lines[idx[k]])
        /\ (parse_pc = "done" /\ current_list_item_buffer # None) =>
              /\ parsed_data # <<>>
              /\ Last(parsed_data) = PendingRecord

\* "1. a" was flushed by the item line "* a", and "* a", pending at the end
\* of the input, by the final flush
C14_Witness ==
    /\ lines = << <<"1", ".", " ", "a">>, <<"*", " ", "a">> >>
    /\ parse_pc = "done"
    /\ current_list_item_buffer # None
    /\ Len(parsed_data) = 2
    /\ parsed_data[1].item_no = <<"1">>
    /\ parsed_data[2].item_no = BULLET

\* the indices of the lines that trigger a record, heading lines and item
\* lines, in order
RECURSIVE TriggerIndices(_, _)
TriggerIndices(cats, i) ==
    IF i > Len(cats) THEN <<>>
    ELSE IF cats[i] \in {"Heading1", "Heading2", "Heading3", "NumberedItem", "BulletItem"}
         THEN <<i>> \o TriggerIndices(cats, i + 1)
         ELSE TriggerIndices(cats, i + 1)

\* record r is the one a line of category cat triggers
TriggeredBy(r, raw, cat) ==
    CASE cat = "Heading1" ->
            /\ r.item_no = EmptyStr
            /\ r.level1 = strip(raw) /\ r.level2 = EmptyStr /\ r.level3 = EmptyStr
      [] cat = "Heading2" ->
            r.item_no = EmptyStr /\ r.level2 = strip(raw) /\ r.level3 = EmptyStr
      [] cat = "Heading3" ->
            r.item_no = EmptyStr /\ r.level3 = strip(raw)
      [] OTHER -> r.item_no = ItemNumberOf(raw)

\* the records are those of the first triggering lines, in the lines' order
InTriggerOrder ==
    LET cats == Categories(lines)
        trig == TriggerIndices(cats, 1)
    IN  /\ Len(parsed_data) <= Len(trig)
        /\ \A k \in 1..Len(parsed_data) :
             TriggeredBy(parsed_data[k], lines[trig[k]], cats[trig[k]])

\* C15: every step of the parse keeps the record list as a prefix of the
\* new one, and in every state the k-th record is the one triggered by
\* the k-th heading or item line of the text, so records appear in the
\* order of their triggering lines although an item's record is appended
\* only when the item is flushed.
C15_Theorem ==
    /\ [][ /\ Len(parsed_data') >= Len(parsed_data)
           /\ SubSeq(parsed_data', 1, Len(parsed_data)) = parsed_data
         ]_vars
    /\ []InTriggerOrder

\* "* a" with its continuation "b" was flushed when the heading "1" came:
\* the item's record stands before the heading's
C15_Witness ==
    /\ lines = << <<"*", " ", "a">>, <<"a">>, <<"1">> >>
    /\ Len(parsed_data) = 2
    /\ parsed_data[1].item_no = BULLET
    /\ parsed_data[1].item_desc = <<"a", " ", "a">>
    /\ parsed_data[2].level1 = <<"1">>
    /\ parsed_data[2].item_no = EmptyStr

\* C16: a Continuation line or a Blank line processed while no item is
\* pending leaves level1, level2, level3, the pending item and the record
\* list as they were.
C16_Theorem ==
    [][ ( /\ lines' # lines
          /\ current_list_item_buffer = None
          /\ category' \in {"Continuation", "Blank"} ) =>
            /\ current_level1' = current_level1
            /\ current_level2' = current_level2
            /\ current_level3' = current_level3
            /\ current_list_item_buffer' = None
            /\ parsed_data' = parsed_data
      ]_vars

\* after the heading "1", the free text "a" and an empty line changed
\* nothing
C16_Witness ==
    /\ lines = << <<"1">>, <<"a">>, <<>> >>
    /\ parse_pc = "loop"
    /\ Len(parsed_data) = 1
    /\ current_level1 = <<"1">>
    /\ current_list_item_buffer = None

IsDigitString(s) == s # EmptyStr /\ \A i \in 1..Len(s) : IsDigit(s[i])

\* a heading record: no item number, no description, some level set
IsHeadingShape(r) ==
    /\ r.item_no = EmptyStr
    /\ r.item_desc = EmptyStr
    /\ r.level1 # EmptyStr \/ r.level2 # EmptyStr \/ r.level3 # EmptyStr

\* an item record: the number is a digit string or the bullet
IsItemShape(r) == IsDigitString(r.item_no) \/ r.item_no = BULLET

\* C20: in every state of the parse every record is either a heading record
\* (itemNo and itemDesc empty, one of level1..level3 not empty) or an item
\* record (itemNo a digit string or the bullet), never both; no record has
\* an empty itemNo with a description.
C20_Theorem ==
    \A k \in 1..Len(parsed_data) :
        /\ IsHeadingShape(parsed_data[k]) # IsItemShape(parsed_data[k])
        /\ parsed_data[k].item_no = EmptyStr => parsed_data[k].item_desc = EmptyStr

\* a level 2 heading with no level 1 above it, then a bullet item and a
\* numbered item with descriptions
C20_Witness ==
    /\ lines = << <<"1", ".", "1">>, <<"U+00B7", "a">>, <<"2", ".", "\t", "a", " ", "b">> >>
    /\ parse_pc = "done"
    /\ Len(parsed_data) = 3
    /\ IsHeadingShape(parsed_data[1]) /\ parsed_data[1].level1 = EmptyStr
    /\ parsed_data[2].item_no = BULLET /\ parsed_data[2].item_desc = <<"a">>
    /\ parsed_data[3].item_no = <<"2">> /\ parsed_data[3].item_desc = <<"a", " ", "b">>

\* C17: in every state of the merge, every merged range spans at least two
\* rows within rows 2..N of one heading column, and no two ranges of a
\* column share a row; during a scan the ranges of its column end before
\* the open run begins, so no range is merged twice.
C17_Theorem ==
    /\ \A r \in merged_cells :
         /\ r[1] \in 1..3
         /\ 2 <= r[2] /\ r[2] < r[3] /\ r[3] <= max_row
    /\ \A r, q \in merged_cells :
         (r[1] = q[1] /\ r # q) => (r[3] < q[2] \/ q[3] < r[2])
    /\ merge_pc = "scan" =>
         \A r \in merged_cells :
            r[1] = column_index =>
                /\ r[3] < row_num
                /\ start_row # 0 => r[3] < start_row

\* column 2 holds '1.1', '1.1', '1.2 a', '1.2 a': two ranges, one after
\* the other
C17_Witness ==
    /\ merge_pc = "done"
    /\ Len(parsed_data) = 4
    /\ parsed_data[2].level2 = <<"1", ".", "1">>
    /\ parsed_data[3].level2 = <<"1", ".", "2", " ", "a">>
    /\ {r \in merged_cells : r[1] = 2} = {<<2, 2, 3>>, <<2, 4, 5>>}

\* C18: when sheet.merge_cells fails for some ranges, exactly those ranges
\* are missing: during a scan the run state is the one of the rows read so
\* far (the open run starts where its value first appeared and reaches the
\* row before the current one), and after the three calls the merged ranges
\* are the maximal runs of the three columns but the failed ones; the third
\* call is reached whatever failed.
C18_Theorem ==
    LET runs == MaximalRuns(1) \cup MaximalRuns(2) \cup MaximalRuns(3)
        v(r) == CellValue(parsed_data, r, column_index)
    IN  /\ merge_errors \subseteq runs
        /\ merged_cells \cap merge_errors = {}
        /\ (merge_pc = "scan" /\ start_row # 0) =>
              /\ start_row < row_num
              /\ \A r \in start_row..(row_num - 1) : v(r) = current_value
              /\ start_row = 2 \/ v(start_row - 1) # current_value
        /\ (merge_pc = "scan" /\ start_row = 0 /\ row_num > 2) =>
              v(row_num - 1) = EmptyStr
        /\ merge_pc = "done" =>
              /\ column_index = 3
              /\ merged_cells = runs \ merge_errors

\* column 2 holds '1.1', '1.1', '1.2 a', '1.2 a': merging rows 2-3 failed,
\* rows 4-5 were merged after it
C18_Witness ==
    /\ merge_pc = "done"
    /\ Len(parsed_data) = 4
    /\ merge_errors = {<<2, 2, 3>>}
    /\ merged_cells = {<<2, 4, 5>>}

\* the records with every heading column but column k emptied
OnlyColumn(data, k) ==
    [i \in 1..Len(data) |->
        [data[i] EXCEPT !.level1 = IF k = 1 THEN @ ELSE EmptyStr,
                        !.level2 = IF k = 2 THEN @ ELSE EmptyStr,
                        !.level3 = IF k = 3 THEN @ ELSE EmptyStr]]

\* C19: a step of the call on one column leaves the value read at every row
\* of the other two columns as it was; and with the three calls taken in
\* any order, the ranges merged are those of the order 1, 2, 3 computed
\* again from the same records, and the ranges of column k are those of a
\* call on a sheet that holds column k's values alone.
C19_Theorem ==
    /\ [][ \A col \in (1..3) \ {column_index} : \A row \in 2..max_row :
              SheetValue(parsed_data, merged_cells', row, col) =
                 SheetValue(parsed_data, merged_cells, row, col)
         ]_vars
    /\ [](merge_pc = "done" =>
            /\ merged_cells = MergeColumns(parsed_data, 3)
            /\ \A k \in 1..3 :
                 {r \in merged_cells : r[1] = k} =
                    merge_consecutive_cells(k, OnlyColumn(parsed_data, k), {}))

\* the calls were taken in the order 3, 2, 1 on a sheet whose column 1
\* holds '1' in rows 2-5 and whose column 2 holds '1.2 a' in rows 4-5
C19_Witness ==
    /\ merge_pc = "done"
    /\ column_order = <<3, 2, 1>>
    /\ Len(parsed_data) = 4
    /\ parsed_data[4].level2 = <<"1", ".", "2", " ", "a">>
    /\ merged_cells = {<<1, 2, 5>>, <<2, 4, 5>>}

====
